---- MODULE Spec2Model ----
(***************************************************************************)
(* File_tool image pipeline: perceptual-hash duplicate detection           *)
(* (hashing, greedy grouping, keeper selection), destination conflict      *)
(* resolution and the staged preview/commit pipeline over the hidden       *)
(* .preview_cache workspace.                                               *)
(*                                                                         *)
(* The module holds several specifications over one set of variables:      *)
(*   SpecGroup   group_duplicates / the grouping loop, inputs = hashes     *)
(*   SpecKeep    choose_keep, inputs = metadata of one duplicate group     *)
(*   SpecDedupe  the dedupe stage: pooled hash tasks, grouping, keepers,   *)
(*               run twice on the same input                               *)
(*   SpecRename  the rename stage and next_non_conflict over one target    *)
(*               directory                                                 *)
(*   Spec        ImageToolApp._pipeline: staging, the stages, finalize,    *)
(*               with _cancel at any moment                                *)
(*   SpecModular ModularApp._run with the stage functions of app/stages    *)
(* Every action leaves the variables of the other parts unchanged.         *)
(***************************************************************************)
EXTENDS Integers, Sequences, FiniteSets, TLC

VARIABLES
    gInfos,      \* grouping input: the list `infos` of ImgInfo records
    gTh,         \* threshold
    gStrategy,   \* keep strategy
    gPc,         \* "hashed" -> "grouped" -> "kept"
    gGroups,     \* `groups` after the grouping loop (all groups, singletons too)
    gCliGroups,  \* what group_duplicates() of the command-line tool returns
    gKeeps,      \* keeper of each duplicate group, in `dup` order
    dMeta,       \* dedupe stage: file -> what Image.open/os.stat give (NoInfo: unreadable)
    dTh,         \* threshold_var
    dKeepMode,   \* keep_mode
    dWorkers,    \* max_workers of the pool
    dTask,       \* file -> "queued" | "running" | "done" (the future of compute(file))
    dWaiting,    \* as_completed() has been called
    dPreDone,    \* futures found finished when as_completed() was called, not yet yielded
    dFinQ,       \* futures finished since, in completion order, not yet yielded
    dYielded,    \* futures as_completed() has yielded
    dInfos,      \* the list `infos`
    dPc,         \* "hashing" -> "done"
    dKeepers,    \* paths of the keepers chosen by this run
    dKept,       \* the list the stage returns
    dRun,        \* 1: first execution, 2: the stage run again on the same input
    dKeepers1,   \* keepers chosen by the first execution
    rPreview,    \* rename stage: preview = not write_to_output
    rOverwrite,  \* overwrite policy: "overwrite" | "skip" | "rename"
    rPattern,    \* pattern_var
    rStart,      \* start_var
    rStep,       \* step_var
    rFiles,      \* the file list handed to the stage
    rPos,        \* position of the next file of the loop
    rIdx,        \* idx, the sequence number of the next file
    rDir,        \* names that exist in the target directory
    rLast,       \* the last destination decision of _process_rename_file
    pMode,       \* pipeline: "preview" (write_to_output = False) | "commit"
    pCfg,        \* the switches the run reads (stages, single_file_mode, remove-source, ...)
    pStop,       \* stop_flag
    pPc,         \* the step _pipeline is at
    pFiles,      \* the local `files` of _pipeline
    pQueue,      \* items an ordered loop has still to visit
    pSet,        \* items an unordered loop (pool, listdir, walk) has still to visit
    pAcc,        \* the result list the running stage builds
    pIdx,        \* rename: [dir, idx] of the directory group being numbered
    pFs,         \* the files that exist
    pDirs,       \* the directories created inside the workspace
    pMap,        \* cache_to_original_map, as a set of <<cache file, original>>
    pTrace,      \* history: the stages run so far, each with its argument and result
    pLate,       \* history: file operations made by a unit that began with stop_flag set
    pFails,      \* history: how many per-file operations have failed in this run
    pFailures,   \* history: the per-file failures, each with its stage, its file and whether a LOG names it
    pIn,         \* in_var, the input location as the interface holds it
    pRunNo,      \* 1: first run of the session, 2: the run started again with the same settings
    pOut1,       \* the files of the output directory when the first run ended
    cIn,         \* ratio classification of one image: size, animation, ratio list, tolerance, snap
    cFolder,     \* the label folder the image is routed to
    eDisk,       \* workspace life cycle: the directories of the workspace that exist
    eAttr,       \* cache_dir, cache_trash_dir, cache_final_dir of the application object
    eBefore,     \* history: eDisk and eAttr before the last call
    eLast,       \* history: the last call, "ensure" | "clear" | "makedirs" ("none": no call yet)
    vFiles,      \* convert stage alone: the list `files`, names [stem, ext] of one directory
    vSame,       \* process_same_var
    vWorkers,    \* workers_var
    vTask,       \* index -> "queued" | "running" | "checked" | "done" (do_one(i, f))
    vDisk,       \* the destination directory: name -> the source its content was made from
    vResults,    \* the list `results`
    vWrote,      \* history: <<i, name>>, task i has written the destination `name`
    hA,          \* hashing: the 8x8 grayscale grid of ahash, pixel index -> gray value
    hD,          \* the 9x8 grayscale grid of dhash, pixel index -> gray value
    hOut,        \* the last call: the implementation and the hash it returned, as the set of its 1-bits
    uOut,        \* interface and worker: out_var, the output location the entry shows
    uDisk,       \* the output locations whose .preview_cache exists
    uAttr,       \* cache_dir of the application object: the location it lies in, or "none"
    uRun,        \* the worker thread: "idle" | "running" | "done"
    uStage,      \* how many stage calls the running _pipeline has made
    uUsed,       \* history: the locations of the cache roots the stages of this run have written to
    uTorn        \* history: a cache root this run had written to was removed while it ran

gVars == <<gInfos, gTh, gStrategy, gPc, gGroups, gCliGroups, gKeeps>>

dCfg  == <<dMeta, dTh, dKeepMode, dWorkers>>
dPool == <<dTask, dWaiting, dPreDone, dFinQ, dYielded, dInfos>>
dVars == <<dCfg, dPool, dPc, dKeepers, dKept, dRun, dKeepers1>>

rVars == <<rPreview, rOverwrite, rPattern, rStart, rStep, rFiles, rPos, rIdx, rDir, rLast>>

pRun  == <<pMode, pCfg>>
pLoop == <<pQueue, pSet, pAcc, pIdx>>
pDisk == <<pFs, pDirs, pMap>>
pHist == <<pTrace, pLate, pFails>>
pSess == <<pIn, pRunNo, pOut1>>
pVars == <<pRun, pStop, pPc, pFiles, pLoop, pDisk, pHist, pFailures, pSess>>

cVars == <<cIn, cFolder>>

eVars == <<eDisk, eAttr, eBefore, eLast>>

vVars == <<vFiles, vSame, vWorkers, vTask, vDisk, vResults, vWrote>>

\* the parts added for single stages and callbacks
hVars == <<hA, hD, hOut>>

uVars == <<uOut, uDisk, uAttr, uRun, uStage, uUsed, uTorn>>

xVars == <<vVars, hVars, uVars>>

vars == <<gVars, dVars, rVars, pVars, cVars, eVars, xVars>>

\* everything but one part
notG == <<dVars, rVars, pVars, cVars, eVars, xVars>>
notD == <<gVars, rVars, pVars, cVars, eVars, xVars>>
notR == <<gVars, dVars, pVars, cVars, eVars, xVars>>
notP == <<gVars, dVars, rVars, cVars, eVars, xVars>>
notC == <<gVars, dVars, rVars, pVars, eVars, xVars>>
notE == <<gVars, dVars, rVars, pVars, cVars, xVars>>
notX == <<gVars, dVars, rVars, pVars, cVars, eVars>>
notV == <<notX, hVars, uVars>>
notH == <<notX, vVars, uVars>>
notU == <<notX, vVars, hVars>>

(***************************************************************************)
(* Bounds                                                                  *)
(***************************************************************************)
MaxInfos == 3
NumFiles == 3
MaxWorkers == 2

AvgHashes  == 0..3
DiffHashes == 0..1
Thresholds == 0..2
ByteSizes  == 1..2
Widths     == 1..2
Heights    == 1..2
MTimes     == 1..2
Strategies == {"first", "largest", "largest-file", "newest", "oldest"}

(***************************************************************************)
(* ImgInfo and the hash distance                                           *)
(***************************************************************************)
ImgInfo(path, size, w, h, ah, dh, mtime) ==
    [path |-> path, size |-> size, w |-> w, h |-> h, ah |-> ah, dh |-> dh, mtime |-> mtime]

res(x) == x.w * x.h

\* (a ^ b).bit_count()
RECURSIVE hamming(_, _)
hamming(a, b) ==
    IF a = 0 /\ b = 0 THEN 0
    ELSE (IF a % 2 # b % 2 THEN 1 ELSE 0) + hamming(a \div 2, b \div 2)

(***************************************************************************)
(* The grouping loop of _dedupe_stage / dedupe / _worker                   *)
(***************************************************************************)
\* a plausible slip: exact match compares the average hash only
AcceptsAvgOnly(info, rep, th) ==
    IF th = 0 THEN info.ah = rep.ah
    ELSE hamming(info.ah, rep.ah) + hamming(info.dh, rep.dh) <= th

\* the test that lets `info` join the group whose representative is `rep`
Accepts(info, rep, th) ==
    IF th = 0 THEN info.ah = rep.ah /\ info.dh = rep.dh
    ELSE hamming(info.ah, rep.ah) + hamming(info.dh, rep.dh) <= th

\* group_duplicates of the command-line tool: coarse filter on the average hash first
AcceptsCli(info, rep, th) ==
    IF th = 0 THEN info.ah = rep.ah /\ info.dh = rep.dh
    ELSE LET dist_a == hamming(info.ah, rep.ah)
         IN  IF dist_a > th THEN FALSE
             ELSE dist_a + hamming(info.dh, rep.dh) <= th

\* a plausible slip: the record is compared with the last member of each group
RECURSIVE FirstAcceptingLast(_, _, _, _, _)
FirstAcceptingLast(groups, info, th, cli, i) ==
    IF i > Len(groups) THEN 0
    ELSE IF (IF cli THEN AcceptsCli(info, groups[i][Len(groups[i])], th)
                    ELSE Accepts(info, groups[i][Len(groups[i])], th))
         THEN i
         ELSE FirstAcceptingLast(groups, info, th, cli, i + 1)

\* index of the first group, in creation order, whose representative accepts; 0 if none
RECURSIVE FirstAccepting(_, _, _, _, _)
FirstAccepting(groups, info, th, cli, i) ==
    IF i > Len(groups) THEN 0
    ELSE IF (IF cli THEN AcceptsCli(info, groups[i][1], th)
                    ELSE Accepts(info, groups[i][1], th))
         THEN i
         ELSE FirstAccepting(groups, info, th, cli, i + 1)

\* a plausible slip: no `break` after the append, the record joins every accepting group
PlaceInfoNoBreak(groups, info, th, cli) ==
    IF FirstAccepting(groups, info, th, cli, 1) = 0
    THEN Append(groups, <<info>>)
    ELSE [i \in 1..Len(groups) |->
            IF (IF cli THEN AcceptsCli(info, groups[i][1], th)
                       ELSE Accepts(info, groups[i][1], th))
            THEN Append(groups[i], info) ELSE groups[i]]

\* one iteration of `for info in infos`
PlaceInfo(groups, info, th, cli) ==
    LET i == FirstAccepting(groups, info, th, cli, 1)
    IN  IF i = 0 THEN Append(groups, <<info>>)
        ELSE [groups EXCEPT ![i] = Append(@, info)]

RECURSIVE GroupLoopFrom(_, _, _, _, _)
GroupLoopFrom(groups, infos, th, cli, k) ==
    IF k > Len(infos) THEN groups
    ELSE GroupLoopFrom(PlaceInfo(groups, infos[k], th, cli), infos, th, cli, k + 1)

GroupLoop(infos, th) == GroupLoopFrom(<<>>, infos, th, FALSE, 1)

\* [g for g in groups if len(g) > 1]
DupGroups(groups) == SelectSeq(groups, LAMBDA g : Len(g) > 1)

group_duplicates(infos, th) == DupGroups(GroupLoopFrom(<<>>, infos, th, TRUE, 1))

(***************************************************************************)
(* Keeper selection                                                        *)
(***************************************************************************)
\* a plausible slip: `>=` keeps the last of several maximal items
RECURSIVE PyMaxIndexLast(_, _, _)
PyMaxIndexLast(keys, best, i) ==
    IF i > Len(keys) THEN best
    ELSE PyMaxIndexLast(keys, IF keys[i] >= keys[best] THEN i ELSE best, i + 1)

\* Python's max(iterable, key=...): the first of several maximal items
RECURSIVE PyMaxIndex(_, _, _)
PyMaxIndex(keys, best, i) ==
    IF i > Len(keys) THEN best
    ELSE PyMaxIndex(keys, IF keys[i] > keys[best] THEN i ELSE best, i + 1)

\* Python's min(iterable, key=...): the first of several minimal items
PyMinIndex(keys) == PyMaxIndex([i \in 1..Len(keys) |-> 0 - keys[i]], 1, 2)

choose_keep(group, strategy) ==
    CASE strategy = "largest"      -> group[PyMaxIndex([i \in 1..Len(group) |-> res(group[i])], 1, 2)]
      [] strategy = "largest-file" -> group[PyMaxIndex([i \in 1..Len(group) |-> group[i].size], 1, 2)]
      [] strategy = "newest"       -> group[PyMaxIndex([i \in 1..Len(group) |-> group[i].mtime], 1, 2)]
      [] strategy = "oldest"       -> group[PyMinIndex([i \in 1..Len(group) |-> group[i].mtime])]
      [] OTHER                     -> group[1]

(***************************************************************************)
(* SpecGroup / SpecKeep: the pure functions applied to drawn inputs        *)
(***************************************************************************)
\* lists of 1..MaxInfos records whose path is their position in the list
InfoLists(Sizes, Ws, Hs, AHs, DHs, MTs) ==
    UNION { { s \in [1..n -> [path : 1..n, size : Sizes, w : Ws, h : Hs,
                               ah : AHs, dh : DHs, mtime : MTs]] :
                \A i \in 1..n : s[i].path = i }
            : n \in 1..MaxInfos }

GStart ==
    /\ gPc = "hashed"
    /\ gGroups = <<>>
    /\ gCliGroups = <<>>
    /\ gKeeps = <<>>

\* the grouping part at rest, for the specifications that do not use it
GIdle ==
    /\ gInfos = <<>> /\ gTh = 0 /\ gStrategy = "first"
    /\ gPc = "idle" /\ gGroups = <<>> /\ gCliGroups = <<>> /\ gKeeps = <<>>

\* the dedupe stage at rest
DIdle ==
    /\ dMeta = <<>> /\ dTh = 0 /\ dKeepMode = "first" /\ dWorkers = 1
    /\ dTask = <<>> /\ dWaiting = FALSE /\ dPreDone = {} /\ dFinQ = <<>>
    /\ dYielded = {} /\ dInfos = <<>>
    /\ dPc = "idle" /\ dKeepers = {} /\ dKept = <<>> /\ dRun = 0 /\ dKeepers1 = {}

\* the rename stage at rest
RIdle ==
    /\ rPreview = FALSE /\ rOverwrite = "overwrite" /\ rPattern = <<>>
    /\ rStart = 0 /\ rStep = 0 /\ rFiles = <<>>
    /\ rPos = 0 /\ rIdx = 0 /\ rDir = {} /\ rLast = [outcome |-> "none"]

\* no pipeline run
PIdle ==
    /\ pMode = "commit" /\ pCfg = <<>> /\ pStop = FALSE /\ pPc = "idle" /\ pFiles = <<>>
    /\ pQueue = <<>> /\ pSet = {} /\ pAcc = <<>> /\ pIdx = <<>>
    /\ pFs = {} /\ pDirs = {} /\ pMap = {} /\ pTrace = <<>> /\ pLate = {} /\ pFails = 0
    /\ pFailures = {} /\ pIn = <<>> /\ pRunNo = 0 /\ pOut1 = {}

\* no ratio classification
CIdle == cIn = <<>> /\ cFolder = <<>>

\* the workspace life cycle is not looked at
EIdle == eDisk = {} /\ eAttr = <<>> /\ eBefore = <<>> /\ eLast = "idle"

\* no convert stage on its own
VIdle ==
    /\ vFiles = <<>> /\ vSame = FALSE /\ vWorkers = 1
    /\ vTask = <<>> /\ vDisk = {} /\ vResults = <<>> /\ vWrote = {}

\* no hashing looked at
HIdle == hA = <<>> /\ hD = <<>> /\ hOut = <<>>

\* no interface callbacks looked at
UIdle ==
    /\ uOut = "" /\ uDisk = {} /\ uAttr = "none" /\ uRun = "idle"
    /\ uStage = 0 /\ uUsed = {} /\ uTorn = FALSE

XIdle == VIdle /\ HIdle /\ UIdle

IdleButG == DIdle /\ RIdle /\ PIdle /\ CIdle /\ EIdle /\ XIdle
IdleButD == GIdle /\ RIdle /\ PIdle /\ CIdle /\ EIdle /\ XIdle
IdleButR == GIdle /\ DIdle /\ PIdle /\ CIdle /\ EIdle /\ XIdle
IdleButP == GIdle /\ DIdle /\ RIdle /\ CIdle /\ EIdle /\ XIdle
IdleButC == GIdle /\ DIdle /\ RIdle /\ PIdle /\ EIdle /\ XIdle
IdleButE == GIdle /\ DIdle /\ RIdle /\ PIdle /\ CIdle /\ XIdle
IdleButX == GIdle /\ DIdle /\ RIdle /\ PIdle /\ CIdle /\ EIdle
IdleButV == IdleButX /\ HIdle /\ UIdle
IdleButH == IdleButX /\ VIdle /\ UIdle
IdleButU == IdleButX /\ VIdle /\ HIdle

\* hashes vary, metadata fixed
InitGroup ==
    /\ gInfos \in InfoLists({1}, {1}, {1}, AvgHashes, DiffHashes, {1})
    /\ gTh \in Thresholds
    /\ gStrategy = "largest"
    /\ GStart
    /\ IdleButG

\* one group of identical hashes, metadata vary
InitKeep ==
    /\ gInfos \in InfoLists(ByteSizes, Widths, Heights, {0}, {0}, MTimes)
    /\ gTh = 0
    /\ gStrategy \in Strategies
    /\ GStart
    /\ IdleButG

Group ==
    /\ gPc = "hashed"
    /\ gGroups' = GroupLoop(gInfos, gTh)
    /\ gCliGroups' = group_duplicates(gInfos, gTh)
    /\ gPc' = "grouped"
    /\ UNCHANGED <<gInfos, gTh, gStrategy, gKeeps>>
    /\ UNCHANGED notG

Keep ==
    /\ gPc = "grouped"
    /\ gKeeps' = [i \in 1..Len(DupGroups(gGroups)) |-> choose_keep(DupGroups(gGroups)[i], gStrategy)]
    /\ gPc' = "kept"
    /\ UNCHANGED <<gInfos, gTh, gStrategy, gGroups, gCliGroups>>
    /\ UNCHANGED notG

NextG == Group \/ Keep

SpecGroup == InitGroup /\ [][NextG]_vars
SpecKeep  == InitKeep /\ [][NextG]_vars

(***************************************************************************)
(* SpecDedupe: the dedupe stage. compute(path) runs on a thread pool, the  *)
(* main thread appends the results in the order as_completed() yields the  *)
(* futures, then groups, picks keepers and builds the returned list.       *)
(* No cancellation is requested during these runs.                         *)
(***************************************************************************)
Files == 1..NumFiles    \* `files`: path p is the p-th element of the input list

\* what Image.open / os.stat give for a file; Unreadable makes compute() return None
MetaSamples ==
    { [size |-> 1, w |-> 1, h |-> 1, ah |-> 0, dh |-> 0, mtime |-> 1],
      [size |-> 2, w |-> 2, h |-> 1, ah |-> 0, dh |-> 0, mtime |-> 2],
      [size |-> 1, w |-> 1, h |-> 1, ah |-> 0, dh |-> 1, mtime |-> 1] }
Unreadable == [size |-> 0]
NoInfo == [path |-> 0]

compute(path) ==
    LET m == dMeta[path]
    IN  IF m = Unreadable THEN NoInfo
        ELSE ImgInfo(path, m.size, m.w, m.h, m.ah, m.dh, m.mtime)

\* sorted(dup, key=lambda x: -len(x)): stable, longest first
RECURSIVE InsertByLen(_, _, _)
InsertByLen(sorted, g, i) ==
    IF i > Len(sorted) THEN Append(sorted, g)
    ELSE IF Len(sorted[i]) < Len(g)
         THEN SubSeq(sorted, 1, i - 1) \o <<g>> \o SubSeq(sorted, i, Len(sorted))
         ELSE InsertByLen(sorted, g, i + 1)

RECURSIVE SortByLenDesc(_, _, _)
SortByLenDesc(sorted, dup, k) ==
    IF k > Len(dup) THEN sorted
    ELSE SortByLenDesc(InsertByLen(sorted, dup[k], 1), dup, k + 1)

\* the groups the keeper loop walks, given the list `infos`
KeeperGroups(infos, th) == SortByLenDesc(<<>>, DupGroups(GroupLoop(infos, th)), 1)

KeepersOf(infos, th, mode) ==
    LET gs == KeeperGroups(infos, th)
    IN  [i \in 1..Len(gs) |-> choose_keep(gs[i], mode)]

DupPaths(infos, th) ==
    LET gs == KeeperGroups(infos, th)
    IN  { gs[i][j].path : <<i, j>> \in { ij \in (1..Len(gs)) \X Files : ij[2] <= Len(gs[ij[1]]) } }

\* a plausible slip: the returned list is built from the hashed records only
KeptListHashedOnly(infos, th, mode) ==
    LET ks == KeepersOf(infos, th, mode)
        dp == DupPaths(infos, th)
        hashed == { infos[i].path : i \in 1..Len(infos) }
    IN  [i \in 1..Len(ks) |-> ks[i].path]
        \o SelectSeq([p \in Files |-> p], LAMBDA p : p \in hashed /\ p \notin dp)

\* kept: the keepers' paths, then every input path that is in no duplicate group
KeptList(infos, th, mode) ==
    LET ks == KeepersOf(infos, th, mode)
        dp == DupPaths(infos, th)
    IN  [i \in 1..Len(ks) |-> ks[i].path]
        \o SelectSeq([p \in Files |-> p], LAMBDA p : p \notin dp)

PoolStart ==
    /\ dTask = [f \in Files |-> "queued"]
    /\ dWaiting = FALSE /\ dPreDone = {} /\ dFinQ = <<>>
    /\ dYielded = {} /\ dInfos = <<>>

InitDedupe ==
    /\ dMeta \in [Files -> MetaSamples \cup {Unreadable}]
    /\ dTh \in 0..1
    /\ dKeepMode \in Strategies
    /\ dWorkers \in 1..MaxWorkers
    /\ PoolStart
    /\ dPc = "hashing" /\ dKeepers = {} /\ dKept = <<>> /\ dRun = 1 /\ dKeepers1 = {}
    /\ IdleButD

\* a pool thread takes the next submitted task (the work queue is first-in first-out)
TaskStart(f) ==
    /\ dPc = "hashing" /\ dTask[f] = "queued"
    /\ \A g \in Files : g < f => dTask[g] # "queued"
    /\ Cardinality({g \in Files : dTask[g] = "running"}) < dWorkers
    /\ dTask' = [dTask EXCEPT ![f] = "running"]
    /\ UNCHANGED <<dWaiting, dPreDone, dFinQ, dYielded, dInfos>>
    /\ UNCHANGED <<dCfg, dPc, dKeepers, dKept, dRun, dKeepers1, notD>>

\* compute(f) returns: the future is finished
TaskFinish(f) ==
    /\ dPc = "hashing" /\ dTask[f] = "running"
    /\ dTask' = [dTask EXCEPT ![f] = "done"]
    /\ IF dWaiting
       THEN dFinQ' = Append(dFinQ, f) /\ UNCHANGED dPreDone
       ELSE dPreDone' = dPreDone \cup {f} /\ UNCHANGED dFinQ
    /\ UNCHANGED <<dWaiting, dYielded, dInfos>>
    /\ UNCHANGED <<dCfg, dPc, dKeepers, dKept, dRun, dKeepers1, notD>>

\* the main thread, all tasks submitted, calls as_completed(futures)
AsCompleted ==
    /\ dPc = "hashing" /\ ~dWaiting
    /\ dWaiting' = TRUE
    /\ UNCHANGED <<dTask, dPreDone, dFinQ, dYielded, dInfos>>
    /\ UNCHANGED <<dCfg, dPc, dKeepers, dKept, dRun, dKeepers1, notD>>

\* as_completed yields a future: first those already finished at the call, in the
\* iteration order of a set, then the others as they finish; `if r: infos.append(r)`
Yield(f) ==
    /\ dPc = "hashing" /\ dWaiting
    /\ IF dPreDone # {}
       THEN f \in dPreDone /\ dPreDone' = dPreDone \ {f} /\ UNCHANGED dFinQ
       ELSE dFinQ # <<>> /\ f = Head(dFinQ) /\ dFinQ' = Tail(dFinQ) /\ UNCHANGED dPreDone
    /\ dYielded' = dYielded \cup {f}
    /\ dInfos' = IF compute(f) # NoInfo THEN Append(dInfos, compute(f)) ELSE dInfos
    /\ UNCHANGED <<dTask, dWaiting>>
    /\ UNCHANGED <<dCfg, dPc, dKeepers, dKept, dRun, dKeepers1, notD>>

\* the pool is drained: group, choose the keepers, build the returned list
GroupAndKeep ==
    /\ dPc = "hashing" /\ dYielded = Files
    /\ dKeepers' = LET ks == KeepersOf(dInfos, dTh, dKeepMode)
                   IN  { ks[i].path : i \in 1..Len(ks) }
    /\ dKept' = KeptList(dInfos, dTh, dKeepMode)
    /\ dPc' = "done"
    /\ UNCHANGED <<dCfg, dPool, dRun, dKeepers1, notD>>

\* the stage is run again on the same files with the same configuration
Rerun ==
    /\ dPc = "done" /\ dRun = 1
    /\ dRun' = 2 /\ dKeepers1' = dKeepers
    /\ dTask' = [f \in Files |-> "queued"]
    /\ dWaiting' = FALSE /\ dPreDone' = {} /\ dFinQ' = <<>>
    /\ dYielded' = {} /\ dInfos' = <<>>
    /\ dPc' = "hashing" /\ dKeepers' = {} /\ dKept' = <<>>
    /\ UNCHANGED <<dCfg, notD>>

NextD ==
    \/ \E f \in Files : TaskStart(f)
    \/ \E f \in Files : TaskFinish(f)
    \/ AsCompleted
    \/ \E f \in Files : Yield(f)
    \/ GroupAndKeep
    \/ Rerun

SpecDedupe == InitDedupe /\ [][NextD]_vars

(***************************************************************************)
(* Claims on grouping and keeper selection                                 *)
(***************************************************************************)
InSameGroup(groups, a, b) ==
    \E k \in 1..Len(groups) :
        \E i, j \in 1..Len(groups[k]) : groups[k][i] = a /\ groups[k][j] = b

Occurrences(groups, a) ==
    Cardinality({ ki \in (1..Len(groups)) \X (1..MaxInfos + 1) :
                    ki[2] <= Len(groups[ki[1]]) /\ groups[ki[1]][ki[2]] = a })

SameHashes(a, b) == a.ah = b.ah /\ a.dh = b.dh

\* C5: with threshold 0, two distinct hashed records are in the same group exactly
\* when their average hashes are equal and their difference hashes are equal, in the
\* grouping loop of the GUI stage and in group_duplicates of the command-line tool.
C5_ExactMatchIff ==
    (gPc # "hashed" /\ gTh = 0) =>
        \A i, j \in 1..Len(gInfos) :
            i # j =>
                /\ InSameGroup(gGroups, gInfos[i], gInfos[j]) <=> SameHashes(gInfos[i], gInfos[j])
                /\ InSameGroup(gCliGroups, gInfos[i], gInfos[j]) <=> SameHashes(gInfos[i], gInfos[j])

\* C5 witness: threshold 0, one pair grouped together and one pair that agrees on the
\* average hash only and is kept apart.
C5_Witness ==
    /\ gPc = "grouped" /\ gTh = 0
    /\ \E i, j \in 1..Len(gInfos) : i # j /\ InSameGroup(gGroups, gInfos[i], gInfos[j])
    /\ \E i, j \in 1..Len(gInfos) :
          /\ gInfos[i].ah = gInfos[j].ah /\ gInfos[i].dh # gInfos[j].dh
          /\ ~InSameGroup(gGroups, gInfos[i], gInfos[j])

\* C6: for every threshold, after the grouping loop every hashed record is a member
\* of exactly one group (groups are pairwise disjoint and cover the records), every
\* group is non-empty and holds only input records; the groups group_duplicates
\* returns are pairwise disjoint too.
C6_Partition ==
    gPc # "hashed" =>
        /\ \A n \in 1..Len(gInfos) : Occurrences(gGroups, gInfos[n]) = 1
        /\ \A n \in 1..Len(gInfos) : Occurrences(gCliGroups, gInfos[n]) <= 1
        /\ \A k \in 1..Len(gGroups) :
              /\ Len(gGroups[k]) >= 1
              /\ \A i \in 1..Len(gGroups[k]) : \E n \in 1..Len(gInfos) : gGroups[k][i] = gInfos[n]

\* C6 witness: a positive threshold and a record that the representatives of two
\* different groups both accept.
C6_Witness ==
    /\ gPc = "grouped" /\ gTh > 0
    /\ \E n \in 1..Len(gInfos) : \E k1, k2 \in 1..Len(gGroups) :
          /\ k1 # k2
          /\ gGroups[k1][1] # gInfos[n] /\ gGroups[k2][1] # gInfos[n]
          /\ Accepts(gInfos[n], gGroups[k1][1], gTh)
          /\ Accepts(gInfos[n], gGroups[k2][1], gTh)

KeyOf(x, strategy) ==
    CASE strategy = "largest"      -> res(x)
      [] strategy = "largest-file" -> x.size
      [] strategy = "newest"       -> x.mtime
      [] strategy = "oldest"       -> 0 - x.mtime
      [] OTHER                     -> 0

\* C7: the keeper of every duplicate group is the group's first element for `first`,
\* an element of maximal width*height / byteSize / modifiedTime for largest /
\* largest-file / newest, of minimal modifiedTime for oldest, and among the elements
\* that tie on the key it is the earliest in group order.
C7_KeepByStrategy ==
    gPc = "kept" =>
        \A n \in 1..Len(gKeeps) :
            LET g == DupGroups(gGroups)[n]
                k == gKeeps[n]
            IN  \E p \in 1..Len(g) :
                    /\ g[p] = k
                    /\ gStrategy = "first" => p = 1
                    /\ \A q \in 1..Len(g) : KeyOf(g[q], gStrategy) <= KeyOf(k, gStrategy)
                    /\ \A q \in 1..(p - 1) : KeyOf(g[q], gStrategy) < KeyOf(k, gStrategy)

\* C7 witness: under `largest` two elements tie on the maximal width*height with
\* different dimensions, and the keeper is the earlier of them but not the first element.
C7_Witness ==
    /\ gPc = "kept" /\ gStrategy = "largest" /\ Len(gKeeps) = 1
    /\ LET g == DupGroups(gGroups)[1]
       IN  /\ Len(g) = 3
           /\ res(g[1]) < res(g[2]) /\ res(g[2]) = res(g[3]) /\ g[2].w # g[3].w
           /\ gKeeps[1] = g[2]

(***************************************************************************)
(* Claims on the dedupe stage                                              *)
(***************************************************************************)
\* the input list restricted to the files compute() hashed, in input order
HashedInInputOrder ==
    SelectSeq([p \in Files |-> compute(p)], LAMBDA r : r # NoInfo)

\* C3: whatever the pool size and the completion order of the hash tasks, the list
\* the grouping loop iterates over is the input list restricted to the successfully
\* hashed files, in input-list order.
C3_StableInputOrder ==
    dPc = "done" => dInfos = HashedInInputOrder

\* C4: the stage run twice on the same input list, hashes, metadata, threshold and
\* keep strategy chooses the same keepers, whatever the interleaving of the hash tasks.
C4_KeeperDeterminism ==
    (dPc = "done" /\ dRun = 2) => dKeepers = dKeepers1

(***************************************************************************)
(* SpecRename: the rename stage over one target directory.                 *)
(* A file name is a record: `stem` is the list of the pieces of the name   *)
(* that "_" joins ("a_1" is <<"a", "1">>), `ext` the extension without the *)
(* dot, `pv` whether the text '(预览改名)' follows the extension.          *)
(* The sources lie in one directory of the workspace; the target directory *)
(* join(cache_final_dir, rel_dir) is another directory, so dest never is   *)
(* the source path itself, and it is created empty by the stage.           *)
(***************************************************************************)
MaxRename == 3
PadWidth == 3

FileName(stem, ext) == [stem |-> stem, ext |-> ext, pv |-> FALSE]

SourceNames ==
    { FileName(<<"a">>, "jpg"), FileName(<<"a">>, "jpeg"),
      FileName(<<"a", "1">>, "jpg"), FileName(<<"b">>, "jpg") }

\* '{name}.{fmt}', 'img.{fmt}', '{name}_{index}.{fmt}': the pieces before '.{fmt}'
Patterns == { <<"{name}">>, <<"img">>, <<"{name}", "{index}">> }
OverwritePolicies == {"overwrite", "skip", "rename"}
StartValues == {1, 9}
StepValues == {1, 2}

norm_ext(f) == IF f.ext = "jpeg" THEN "jpg" ELSE f.ext

RECURSIVE zfill(_, _)
zfill(str, w) == IF Len(str) >= w THEN str ELSE zfill("0" \o str, w)

RECURSIVE RenderStem(_, _, _)
\* the placeholders of the pattern replaced: {index} by str(idx).zfill(pad_width),
\* {name} by the stem of the source
RenderStem(pattern, f, idx) ==
    IF pattern = <<>> THEN <<>>
    ELSE LET t == Head(pattern)
             piece == IF t = "{name}" THEN f.stem
                      ELSE IF t = "{index}" THEN << zfill(ToString(idx), PadWidth) >>
                      ELSE <<t>>
         IN  piece \o RenderStem(Tail(pattern), f, idx)

final_name(pattern, f, idx) == FileName(RenderStem(pattern, f, idx), norm_ext(f))

RECURSIVE NonConflictFrom(_, _, _)
\* the loop of next_non_conflict from candidate number i on
NonConflictFrom(dir, path, i) ==
    LET cand == [path EXCEPT !.stem = Append(path.stem, ToString(i))]
    IN  IF cand \in dir THEN NonConflictFrom(dir, path, i + 1) ELSE cand

next_non_conflict(dir, path) ==
    IF path \in dir THEN NonConflictFrom(dir, path, 1) ELSE path

\* the destination _process_rename_file settles on, "skip" when it skips the file
ChooseDest(dir, desired, overwrite, preview) ==
    IF desired \in dir
    THEN IF overwrite = "skip" THEN "skip"
         ELSE IF overwrite = "rename"
              THEN IF ~preview THEN next_non_conflict(dir, desired)
                   ELSE [desired EXCEPT !.pv = TRUE]
              ELSE desired
    ELSE desired

RenameLists ==
    UNION { { fs \in [1..n -> SourceNames] : \A i, j \in 1..n : i # j => fs[i] # fs[j] }
            : n \in 1..MaxRename }

InitRename ==
    /\ rPreview \in BOOLEAN
    /\ rOverwrite \in OverwritePolicies
    /\ rPattern \in Patterns
    /\ rStart \in StartValues
    /\ rStep \in StepValues
    /\ rFiles \in RenameLists
    /\ rPos = 1 /\ rIdx = rStart /\ rDir = {} /\ rLast = [outcome |-> "none"]
    /\ IdleButR

\* one iteration of the loop of _rename_stage_only: _process_rename_file(f, ...)
RenameFile(copied) ==
    /\ rPos \in 1..Len(rFiles)
    /\ LET f == rFiles[rPos]
           desired == final_name(rPattern, f, rIdx)
           existed == desired \in rDir
       IN  IF existed /\ rOverwrite = "skip"
           THEN /\ rLast' = [outcome |-> "skipped", src |-> f, desired |-> desired,
                             dest |-> desired, existed |-> TRUE, before |-> rDir, idx |-> rIdx]
                /\ UNCHANGED rDir
           ELSE LET dest == ChooseDest(rDir, desired, rOverwrite, rPreview)
                IN  /\ rLast' = [outcome |-> IF copied THEN "copied" ELSE "failed",
                                 src |-> f, desired |-> desired, dest |-> dest,
                                 existed |-> existed, before |-> rDir, idx |-> rIdx]
                    /\ rDir' = IF copied THEN rDir \cup {dest} ELSE rDir
    /\ rIdx' = rIdx + rStep
    /\ rPos' = rPos + 1
    /\ UNCHANGED <<rPreview, rOverwrite, rPattern, rStart, rStep, rFiles>>
    /\ UNCHANGED notR

NextR == \E copied \in BOOLEAN : RenameFile(copied)

SpecRename == InitRename /\ [][NextR]_vars

(***************************************************************************)
(* Claims on the rename policy                                             *)
(***************************************************************************)
\* the first of A_1, A_2, ... that is not in dir
FirstFreeSuffix(dir, a) ==
    LET n == CHOOSE k \in 1..(MaxRename + 1) :
                 /\ [a EXCEPT !.stem = Append(a.stem, ToString(k))] \notin dir
                 /\ \A j \in 1..(k - 1) :
                        [a EXCEPT !.stem = Append(a.stem, ToString(j))] \in dir
    IN  [a EXCEPT !.stem = Append(a.stem, ToString(n))]

\* C8: under the rename policy, in Preview as in Commit, the destination chosen for a
\* file does not exist when it is chosen, and for an existing destination A it is the
\* first of A_1, A_2, ... that does not exist.
C8_RenamePolicyFresh ==
    (rLast.outcome \in {"copied", "failed"} /\ rOverwrite = "rename")
        => /\ rLast.dest \notin rLast.before
           /\ rLast.existed => rLast.dest = FirstFreeSuffix(rLast.before, rLast.desired)

(***************************************************************************)
(* Spec: ImageToolApp._pipeline.                                           *)
(* Directories are lists of path components below a common parent: the     *)
(* input directory is in/, the output directory out/, the workspace        *)
(* out/.preview_cache/ (cache_dir) with input/, _final/ and _trash/.       *)
(* A file is its directory, the item it is a copy of (the base name),      *)
(* its extension and the sequence number the rename stage gave it (0: not  *)
(* renamed). The input directory is flat and its base names are distinct,  *)
(* so a classify or convert destination never exists before it is written. *)
(* Every per-file unit of a loop or of a pool is one step.                 *)
(***************************************************************************)
NumItems == 2
MaxFailures == 1
RenameStart == 1
RenameStep == 1

Items == 1..NumItems

InDir         == <<"in">>
OutDir        == <<"out">>
CacheDir      == OutDir \o <<".preview_cache">>
CacheInputDir == CacheDir \o <<"input">>
CacheTrashDir == CacheDir \o <<"_trash">>
CacheFinalDir == CacheDir \o <<"_final">>

File(dir, item, ext, idx) == [dir |-> dir, item |-> item, ext |-> ext, idx |-> idx]

\* None in a result list
NoFile == File(<<>>, 0, "", 0)

Range(seq) == { seq[i] : i \in 1..Len(seq) }

IsPrefix(a, b) == Len(a) <= Len(b) /\ SubSeq(b, 1, Len(a)) = a

\* file f lies in dir or below it
Under(f, dir) == IsPrefix(dir, f.dir)

RECURSIVE CommonLen(_, _)
CommonLen(a, b) ==
    IF a = <<>> \/ b = <<>> THEN 0
    ELSE IF Head(a) # Head(b) THEN 0
    ELSE 1 + CommonLen(Tail(a), Tail(b))

\* os.path.relpath(a, b): `up` times "..", then the components `down`
relpath(a, b) ==
    LET k == CommonLen(a, b)
    IN  [up |-> Len(b) - k, down |-> SubSeq(a, k + 1, Len(a))]

\* the directory os.path.join(base, rel) names
join(base, rel) == SubSeq(base, 1, Len(base) - rel.up) \o rel.down

\* join(out_dir, relpath(dirname(f), class_root)) of the convert and rename stages
TargetDir(f) == join(CacheFinalDir, relpath(f.dir, CacheDir))

InputFile(i) == File(InDir, i, IF i = 1 THEN "jpg" ELSE "png", 0)

\* a file the output directory holds before the run
OldOutput == File(OutDir, 0, "jpg", 0)

InitialFs == { InputFile(i) : i \in Items } \cup {OldOutput}

\* fmt of the convert stage
TargetFmt == "png"

RatioLabel(f) == IF f.item = 1 THEN "4x3" ELSE "other"
ShapeLabel(f) == "square"

\* what compute() reads from a file: equal hashes when the images are the same picture
PInfo(f, same) ==
    ImgInfo(f, f.item, 1, f.item, IF same THEN 0 ELSE f.item, 0, 1)

Configs ==
    { c \in [ratio : BOOLEAN, shape : BOOLEAN, convert : BOOLEAN, dedupe : BOOLEAN,
             rename : BOOLEAN, single : BOOLEAN, purge : BOOLEAN, workers : 1..2,
             action : {"list", "delete"}, same : BOOLEAN, trashy : BOOLEAN] :
        \* switches nothing reads are fixed
        /\ ~c.dedupe => ~c.same
        /\ ~c.same => c.action = "delete"
        /\ c.single => c.workers = 1 }

\* the stages run out of order: dedupe before convert
StageOrderSwapped == <<"ratio", "shape", "dedupe", "convert", "rename">>

\* the order of the stage calls of _pipeline
StageOrder == <<"ratio", "shape", "convert", "dedupe", "rename">>

\* the condition of the `if` in front of the stage call
Enabled(cfg, stage) ==
    CASE stage = "ratio"   -> ~cfg.single /\ cfg.ratio
      [] stage = "shape"   -> ~cfg.single /\ cfg.shape
      [] stage = "convert" -> cfg.convert
      [] stage = "dedupe"  -> ~cfg.single /\ cfg.dedupe
      [] stage = "rename"  -> cfg.rename

AnyEnabled(cfg) == \E k \in 1..Len(StageOrder) : Enabled(cfg, StageOrder[k])

\* position of a stage in the order, 0 for the staging step
StagePos(stage) ==
    IF stage = "stage_in" THEN 0
    ELSE CHOOSE k \in 1..Len(StageOrder) : StageOrder[k] = stage

\* where _pipeline goes after the k-th stage call has returned with the flag clear
NextStep(cfg, mode, k) ==
    LET later == { j \in (k + 1)..Len(StageOrder) : Enabled(cfg, StageOrder[j]) }
    IN  IF later # {} THEN StageOrder[CHOOSE j \in later : \A i \in later : j <= i]
        ELSE IF ~AnyEnabled(cfg) THEN "copy_final"
        ELSE IF mode = "commit" THEN "clear"
        ELSE "done"


\* the first file of the list that the loop has not visited yet
FirstPending(files, pending) ==
    files[CHOOSE i \in 1..Len(files) :
              files[i] \in pending /\ \A j \in 1..(i - 1) : files[j] \notin pending]

IndexOf(files, f) == CHOOSE i \in 1..Len(files) : files[i] = f

RECURSIVE DirKeys(_, _)
\* the keys of dir_groups in insertion order
DirKeys(files, seen) ==
    IF files = <<>> THEN <<>>
    ELSE IF Head(files).dir \in seen THEN DirKeys(Tail(files), seen)
    ELSE <<Head(files).dir>> \o DirKeys(Tail(files), seen \cup {Head(files).dir})

RECURSIVE ByDirGroup(_, _)
\* the files in the order the rename stage visits them when it numbers per directory
ByDirGroup(keys, files) ==
    IF keys = <<>> THEN <<>>
    ELSE SelectSeq(files, LAMBDA f : f.dir = Head(keys)) \o ByDirGroup(Tail(keys), files)

RenameOrder(cfg, files) ==
    IF cfg.ratio \/ cfg.shape THEN ByDirGroup(DirKeys(files, {}), files) ELSE files

\* the directories that exist in the workspace: those made, and their parents
WsDirs(dirs) ==
    { SubSeq(d, 1, n) : <<d, n>> \in
        { dn \in (dirs \cup {CacheFinalDir, CacheTrashDir}) \X (Len(CacheDir)..(Len(CacheDir) + 6)) :
            dn[2] <= Len(dn[1]) } }

\* _find_deepest_final_dir
DeepestFinalDir(fs, dirs) ==
    LET finals  == { d \in WsDirs(dirs) : Len(d) > Len(CacheDir) /\ d[Len(d)] = "_final" }
        deepest == CHOOSE d \in finals : \A e \in finals : Len(e) <= Len(d)
    IN  IF \E f \in fs : Under(f, deepest) THEN deepest ELSE CacheFinalDir

\* the files os.walk(source_dir) offers to the copy loop of _finalize_to_output;
\* `if '_trash' in root: continue` looks for the text anywhere in the path of the
\* directory, so nothing is offered when the path of the output location holds it
\* (trashy: the name the user gave the output directory contains "_trash")
WalkFiles(fs, dirs, trashy) ==
    IF trashy THEN {}
    ELSE { f \in fs : /\ Under(f, DeepestFinalDir(fs, dirs))
                      /\ \A i \in 1..Len(f.dir) : f.dir[i] # "_trash" }

\* the top-level entry of the output directory that holds f, as the files in it
OutEntry(fs, f) ==
    IF f.dir = OutDir THEN {f}
    ELSE { g \in fs : Under(g, OutDir) /\ g.dir # OutDir /\ g.dir[2] = f.dir[2] }

\* what os.listdir(real_out) gives the clearing loop, '.preview_cache' skipped
ClearSet(fs) == { f \in fs : Under(f, OutDir) /\ ~Under(f, CacheDir) }

PInfos(acc, same) == [i \in 1..Len(acc) |-> PInfo(acc[i], same)]

\* the keep mode of the run
PKeepMode == "largest"

RECURSIVE Redundant(_, _)
\* the non-keepers, in the order the keeper loop meets them
Redundant(groups, mode) ==
    IF groups = <<>> THEN <<>>
    ELSE LET g == Head(groups)
             keep == choose_keep(g, mode)
             others == SelectSeq(g, LAMBDA x : x # keep)
         IN  [i \in 1..Len(others) |-> others[i].path] \o Redundant(Tail(groups), mode)

\* the list _dedupe_stage returns, given infos and its argument
PKept(infos, files, mode) ==
    LET gs == KeeperGroups(infos, 0)
        dup_paths == UNION { { gs[i][j].path : j \in 1..Len(gs[i]) } : i \in 1..Len(gs) }
    IN  [i \in 1..Len(gs) |-> choose_keep(gs[i], mode).path]
        \o SelectSeq(files, LAMBDA q : q \notin dup_paths)

NoLoop == [queue |-> <<>>, set |-> {}, acc |-> <<>>, idx |-> <<>>]

\* the loop state on entry to a step
LoopOf(step, files, cfg, fs, dirs, map) ==
    CASE step \in {"stage_in", "copy_final"} -> [NoLoop EXCEPT !.queue = files]
      [] step \in {"ratio", "shape", "dedupe"} -> [NoLoop EXCEPT !.set = Range(files)]
      [] step = "convert" -> [NoLoop EXCEPT !.set = Range(files),
                                            !.acc = [i \in 1..Len(files) |-> NoFile]]
      [] step = "rename"  -> [NoLoop EXCEPT !.queue = RenameOrder(cfg, files),
                                            !.idx = [dir |-> <<>>, idx |-> RenameStart]]
      [] step = "clear"    -> [NoLoop EXCEPT !.set = ClearSet(fs)]
      [] step = "copy_out" -> [NoLoop EXCEPT !.set = WalkFiles(fs, dirs, cfg.trashy)]
      [] step = "purge"    -> [NoLoop EXCEPT !.set = { m[2] : m \in map }]
      [] OTHER -> NoLoop

\* the loop state is set up for step `next`
EnterStep(next) ==
    LET l == LoopOf(next, pFiles', pCfg, pFs', pDirs', pMap')
    IN  /\ pPc' = next
        /\ pQueue' = l.queue /\ pSet' = l.set /\ pAcc' = l.acc /\ pIdx' = l.idx

Init ==
    /\ pMode \in {"preview", "commit"}
    /\ pCfg \in Configs
    /\ pMode = "preview" => (~pCfg.purge /\ ~pCfg.trashy)
    /\ pStop = FALSE
    /\ pPc = "stage_in"
    /\ pFiles = IF pCfg.single THEN <<InputFile(1)>> ELSE [i \in Items |-> InputFile(i)]
    /\ pQueue = pFiles /\ pSet = {} /\ pAcc = <<>> /\ pIdx = <<>>
    /\ pFs = InitialFs /\ pDirs = {} /\ pMap = {}
    /\ pTrace = <<>> /\ pLate = {} /\ pFails = 0
    /\ pFailures = {} /\ pIn = InDir /\ pRunNo = 1 /\ pOut1 = {}
    /\ IdleButP

\* a stage call returns `out`: files = out, then `if self.stop_flag.is_set(): return`
StageReturn(stage, out) ==
    /\ pFiles' = out
    /\ pTrace' = Append(pTrace, [stage |-> stage, arg |-> pFiles, out |-> out])
    /\ IF pStop THEN EnterStep("cancelled")
       ELSE EnterStep(NextStep(pCfg, pMode, StagePos(stage)))

\* a per-file operation ends as `good` says; a run sees at most MaxFailures failures
Ends(good) ==
    IF good THEN UNCHANGED pFails
    ELSE pFails < MaxFailures /\ pFails' = pFails + 1

\* the operation of `stage` on file f ends as `good` says; a failure is remembered
\* with `logged`: the handler puts a LOG message naming the stage and the path
Fails(good, stage, f, logged) ==
    /\ Ends(good)
    /\ pFailures' = IF good THEN pFailures
                    ELSE pFailures \cup {[stage |-> stage, file |-> f, logged |-> logged]}

\* _cancel
Cancel ==
    /\ pPc \notin {"idle", "done", "cancelled", "failed"} /\ ~pStop
    /\ pStop' = TRUE
    /\ UNCHANGED <<pRun, pPc, pFiles, pLoop, pDisk, pHist, pFailures, pSess, notP>>

\* _copy_input_to_cache, one file of the loop
StageInput(outcome) ==
    /\ pPc = "stage_in" /\ pQueue # <<>>
    /\ LET f == Head(pQueue)
           dest == File(CacheInputDir, f.item, f.ext, f.idx)
       IN  IF pStop
           THEN /\ outcome = "ok"
                /\ pQueue' = <<>>
                /\ UNCHANGED <<pAcc, pDisk>>
           ELSE CASE outcome = "ok" ->
                       /\ pQueue' = Tail(pQueue)
                       /\ pAcc' = Append(pAcc, dest)
                       /\ pFs' = pFs \cup {dest}
                       /\ pDirs' = pDirs \cup {CacheInputDir}
                       /\ pMap' = pMap \cup {<<dest, f>>}
                  [] outcome = "copyfail" ->
                       /\ pQueue' = Tail(pQueue)
                       /\ pDirs' = pDirs \cup {CacheInputDir}
                       /\ UNCHANGED <<pAcc, pFs, pMap>>
                  [] outcome = "dirfail" ->
                       \* os.makedirs raises: the outer handler returns the argument
                       /\ pQueue' = <<>>
                       /\ pAcc' = pFiles
                       /\ UNCHANGED pDisk
    /\ Fails(outcome = "ok", "stage_in", Head(pQueue), outcome = "copyfail")
    /\ UNCHANGED <<pRun, pStop, pPc, pFiles, pSet, pIdx, pTrace, pLate, pSess, notP>>

\* the STATUS message _pipeline has put on the queue when it left
LastStatus ==
    CASE pPc = "done" -> IF pMode = "preview" THEN "STATUS preview done" ELSE "STATUS done"
      [] pPc = "failed" -> "STATUS failed"
      [] OTHER -> "none"

\* the loop or pool of the running step visits f next
Visits(f, pooled) ==
    /\ f \in pSet
    /\ pooled \/ f = FirstPending(pFiles, pSet)

\* classify_one(f) of _ratio_classify_stage / _shape_classify_stage
Classify(f, outcome) ==
    /\ pPc \in {"ratio", "shape"}
    /\ Visits(f, pCfg.workers > 1)
    /\ pSet' = pSet \ {f}
    /\ LET d == CacheFinalDir \o <<IF pPc = "ratio" THEN RatioLabel(f) ELSE ShapeLabel(f)>>
           dest == File(d, f.item, f.ext, f.idx)
       IN  IF pStop
           THEN outcome = "copied" /\ UNCHANGED <<pAcc, pFs, pDirs>>
           ELSE CASE outcome = "unreadable" ->
                       pAcc' = Append(pAcc, f) /\ UNCHANGED <<pFs, pDirs>>
                  [] outcome = "copyfail" ->
                       pAcc' = Append(pAcc, f) /\ pDirs' = pDirs \cup {d} /\ UNCHANGED pFs
                  [] outcome = "copied" ->
                       /\ f \in pFs
                       /\ pDirs' = pDirs \cup {d}
                       /\ IF dest = f
                          THEN pAcc' = Append(pAcc, f) /\ UNCHANGED pFs
                          ELSE pAcc' = Append(pAcc, dest) /\ pFs' = pFs \cup {dest}
    \* an image that cannot be opened is passed on without a message
    /\ Fails(outcome = "copied", pPc, f, outcome = "copyfail")
    /\ UNCHANGED <<pRun, pStop, pPc, pFiles, pQueue, pIdx, pMap, pTrace, pLate, pSess, notP>>

\* do_one(i, f) of _convert_stage_only
Convert(f, outcome) ==
    /\ pPc = "convert"
    /\ Visits(f, pCfg.workers > 1 /\ Len(pFiles) > 1)
    /\ pSet' = pSet \ {f}
    /\ LET i == IndexOf(pFiles, f)
           need_convert == norm_ext(f) # TargetFmt
           d == TargetDir(f)
           dest == File(d, f.item, IF need_convert THEN TargetFmt ELSE f.ext, f.idx)
       IN  IF pStop
           THEN outcome = "ok" /\ UNCHANGED <<pAcc, pFs, pDirs>>
           ELSE CASE outcome = "ok" ->
                       /\ f \in pFs
                       /\ pAcc' = [pAcc EXCEPT ![i] = dest]
                       /\ pFs' = pFs \cup {dest}
                       /\ pDirs' = pDirs \cup {d}
                  [] outcome = "copyfail" ->
                       \* convert_one fails: f; copy2 fails: dest_placeholder
                       /\ pAcc' = [pAcc EXCEPT ![i] = IF need_convert THEN f ELSE dest]
                       /\ pDirs' = pDirs \cup {d}
                       /\ UNCHANGED pFs
                  [] outcome = "dirfail" ->
                       /\ ~need_convert
                       /\ pAcc' = [pAcc EXCEPT ![i] = f]
                       /\ UNCHANGED <<pFs, pDirs>>
    \* the branch without conversion reports its failure only `if not preview`
    /\ Fails(outcome = "ok", "convert", f, norm_ext(f) # TargetFmt \/ pMode = "commit")
    /\ UNCHANGED <<pRun, pStop, pPc, pFiles, pQueue, pIdx, pMap, pTrace, pLate, pSess, notP>>

\* compute(f) of _dedupe_stage and its result taken from as_completed
Hash(f, readable) ==
    /\ pPc = "dedupe" /\ f \in pSet
    /\ pSet' = pSet \ {f}
    /\ IF pStop
       THEN readable /\ UNCHANGED pAcc
       ELSE IF readable
            THEN f \in pFs /\ pAcc' = Append(pAcc, f)
            ELSE UNCHANGED pAcc
    \* `except Exception: info=None`, no message
    /\ Fails(readable, "dedupe", f, FALSE)
    /\ UNCHANGED <<pRun, pStop, pPc, pFiles, pQueue, pIdx, pDisk, pTrace, pLate, pSess, notP>>

\* _dedupe_stage once the pool is drained: `if stop: return []`, groups, keepers
DedupeDecide ==
    /\ pPc = "dedupe" /\ pSet = {}
    /\ IF pStop
       THEN /\ UNCHANGED pDisk
            /\ StageReturn("dedupe", <<>>)
       ELSE LET infos == PInfos(pAcc, pCfg.same)
            IN  /\ pPc' = "dedupe_act"
                /\ pQueue' = Redundant(KeeperGroups(infos, 0), PKeepMode)
                /\ pAcc' = PKept(infos, pFiles, PKeepMode)
                /\ UNCHANGED <<pFiles, pSet, pIdx, pDisk, pTrace>>
    /\ UNCHANGED <<pRun, pStop, pLate, pFails, pFailures, pSess, notP>>

\* the action of _dedupe_stage on one redundant file
DedupeAct(ok) ==
    /\ pPc = "dedupe_act" /\ pQueue # <<>>
    /\ pQueue' = Tail(pQueue)
    /\ LET f == Head(pQueue)
       IN  IF pCfg.action = "delete" /\ ~pStop /\ ok
           THEN IF pMode = "preview"
                THEN \* _simulate_delete: shutil.move(path, target)
                     pFs' = (pFs \ {f}) \cup {File(CacheTrashDir, f.item, f.ext, f.idx)}
                ELSE \* safe_delete
                     pFs' = pFs \ {f}
           ELSE /\ ok \/ (pCfg.action = "delete" /\ ~pStop)
                /\ UNCHANGED pFs
    \* safe_delete returns its message for the LOG line; _simulate_delete swallows the error
    /\ Fails(ok, "dedupe", Head(pQueue), pMode = "commit")
    /\ UNCHANGED <<pRun, pStop, pPc, pFiles, pSet, pAcc, pIdx, pDirs, pMap, pTrace, pLate, pSess, notP>>

\* one iteration of the loop of _rename_stage_only
Rename(outcome) ==
    /\ pPc = "rename" /\ pQueue # <<>>
    /\ LET f == Head(pQueue)
           cur == IF (pCfg.ratio \/ pCfg.shape) /\ pIdx.dir # f.dir
                  THEN RenameStart ELSE pIdx.idx
           d == TargetDir(f)
           dest == File(d, f.item, norm_ext(f), cur)
       IN  IF pStop
           THEN outcome = "ok" /\ pQueue' = <<>> /\ UNCHANGED <<pPc, pIdx, pFs, pDirs>>
           ELSE IF f \notin pFs
                THEN /\ outcome = "ok"
                     /\ pQueue' = Tail(pQueue) /\ UNCHANGED <<pPc, pIdx, pFs, pDirs>>
                ELSE IF outcome = "dirfail"
                     THEN \* os.makedirs(target_dir) stands in front of the try: the
                          \* exception leaves the stage and is caught by _pipeline
                          /\ d \notin WsDirs(pDirs)
                          /\ pPc' = "failed" /\ pQueue' = <<>>
                          /\ UNCHANGED <<pIdx, pFs, pDirs>>
                     ELSE /\ pQueue' = Tail(pQueue)
                          /\ pIdx' = [dir |-> f.dir, idx |-> cur + RenameStep]
                          /\ pDirs' = pDirs \cup {d}
                          /\ pFs' = IF outcome = "ok" THEN pFs \cup {dest} ELSE pFs
                          /\ UNCHANGED pPc
    /\ Fails(outcome = "ok", "rename", Head(pQueue), outcome = "copyfail")
    /\ UNCHANGED <<pRun, pStop, pFiles, pSet, pAcc, pMap, pTrace, pLate, pSess, notP>>

\* one iteration of the loop of _copy_files_to_final
CopyFinal(ok) ==
    /\ pPc = "copy_final" /\ pQueue # <<>>
    /\ LET f == Head(pQueue)
           d == IF pCfg.single THEN CacheFinalDir
                ELSE join(CacheFinalDir, relpath(f.dir, CacheInputDir))
           dest == File(d, f.item, f.ext, f.idx)
       IN  IF pStop THEN ok /\ pQueue' = <<>> /\ UNCHANGED <<pFs, pDirs>>
           ELSE IF f \notin pFs
                THEN ok /\ pQueue' = Tail(pQueue) /\ UNCHANGED <<pFs, pDirs>>
                ELSE /\ pQueue' = Tail(pQueue)
                     /\ pDirs' = pDirs \cup {d}
                     \* copy2 of a file onto itself raises
                     /\ pFs' = IF ok /\ dest # f THEN pFs \cup {dest} ELSE pFs
    /\ Fails(ok, "copy_final", Head(pQueue), TRUE)
    /\ UNCHANGED <<pRun, pStop, pPc, pFiles, pSet, pAcc, pIdx, pMap, pTrace, pLate, pSess, notP>>

\* one entry of the clearing loop of _finalize_to_output: rmtree or remove
Clear(f, ok) ==
    /\ pPc = "clear" /\ f \in pSet
    /\ pSet' = pSet \ OutEntry(pFs, f)
    /\ pFs' = IF ok THEN pFs \ OutEntry(pFs, f) ELSE pFs
    /\ pLate' = IF pStop /\ ok THEN pLate \cup {"finalize_clear"} ELSE pLate
    \* `except Exception: pass`
    /\ Fails(ok, "clear", f, FALSE)
    /\ UNCHANGED <<pRun, pStop, pPc, pFiles, pQueue, pAcc, pIdx, pDirs, pMap, pTrace, pSess, notP>>

\* one file of the copy loop of _finalize_to_output
CopyOut(f, outcome) ==
    /\ pPc = "copy_out" /\ f \in pSet
    /\ LET d == join(OutDir, relpath(f.dir, DeepestFinalDir(pFs, pDirs)))
           dest == File(d, f.item, f.ext, f.idx)
       IN  IF pStop
           THEN outcome = "ok" /\ pSet' = pSet \ {f} /\ UNCHANGED <<pPc, pFs>>
           ELSE IF outcome = "dirfail"
                THEN \* os.makedirs(dirname(dest_path)) stands in front of the inner try:
                     \* the outer handler ends the walk, the purge is not reached and
                     \* _pipeline goes on to its status message
                     /\ d # OutDir /\ ~\E g \in pFs : Under(g, d)
                     /\ pPc' = "done" /\ pSet' = {}
                     /\ UNCHANGED pFs
                ELSE /\ pSet' = pSet \ {f}
                     /\ pFs' = IF outcome = "ok" THEN pFs \cup {dest} ELSE pFs
                     /\ UNCHANGED pPc
    /\ Fails(outcome = "ok", "finalize", f, outcome = "copyfail")
    /\ UNCHANGED <<pRun, pStop, pFiles, pQueue, pAcc, pIdx, pDirs, pMap, pTrace, pLate, pSess, notP>>

\* the check is left out: every original is removed
OutsideInputNever(f, input_dir) == FALSE

\* os.path.relpath(source_file, input_dir).startswith('..')
OutsideInput(f, input_dir) == relpath(f.dir, input_dir).up > 0

\* one original of the loop of _remove_source_files
Purge(f, ok) ==
    /\ pPc = "purge" /\ f \in pSet
    /\ pSet' = pSet \ {f}
    /\ IF pStop \/ f \notin pFs \/ OutsideInput(f, pIn)
       THEN ok /\ UNCHANGED pFs
       ELSE pFs' = IF ok THEN pFs \ {f} ELSE pFs
    /\ Fails(ok, "purge", f, TRUE)
    /\ UNCHANGED <<pRun, pStop, pPc, pFiles, pQueue, pAcc, pIdx, pDirs, pMap, pTrace, pLate, pSess, notP>>

\* the loop of the running step is over: the step returns and _pipeline goes on
StepDone ==
    /\ pPc \in {"stage_in", "ratio", "shape", "convert", "dedupe_act", "rename",
                "copy_final", "clear", "copy_out", "purge"}
    /\ pQueue = <<>> /\ pSet = {}
    /\ UNCHANGED pDisk
    /\ CASE pPc \in {"stage_in", "ratio", "shape"} -> StageReturn(pPc, pAcc)
         [] pPc = "convert" -> StageReturn(pPc, SelectSeq(pAcc, LAMBDA r : r # NoFile))
         [] pPc = "dedupe_act" -> StageReturn("dedupe", pAcc)
         [] pPc = "rename" -> StageReturn(pPc, pFiles)
         [] pPc = "copy_final" ->
              /\ UNCHANGED <<pFiles, pTrace>>
              /\ EnterStep(IF pMode = "commit" THEN "clear" ELSE "done")
         [] pPc = "clear" -> UNCHANGED <<pFiles, pTrace>> /\ EnterStep("copy_out")
         [] pPc = "copy_out" ->
              /\ UNCHANGED <<pFiles, pTrace>>
              /\ EnterStep(IF pCfg.purge THEN "purge" ELSE "done")
         [] pPc = "purge" -> UNCHANGED <<pFiles, pTrace>> /\ EnterStep("done")
    /\ UNCHANGED <<pRun, pStop, pLate, pFails, pFailures, pSess, notP>>

StageOutcomes == {"ok", "copyfail", "dirfail"}
ClassifyOutcomes == {"copied", "copyfail", "unreadable"}

Next ==
    \/ Cancel
    \/ \E o \in StageOutcomes : StageInput(o)
    \/ \E f \in pSet, o \in ClassifyOutcomes : Classify(f, o)
    \/ \E f \in pSet, o \in StageOutcomes : Convert(f, o)
    \/ \E f \in pSet, readable \in BOOLEAN : Hash(f, readable)
    \/ DedupeDecide
    \/ \E ok \in BOOLEAN : DedupeAct(ok)
    \/ \E o \in StageOutcomes : Rename(o)
    \/ \E ok \in BOOLEAN : CopyFinal(ok)
    \/ \E f \in pSet, ok \in BOOLEAN : Clear(f, ok)
    \/ \E f \in pSet, o \in StageOutcomes : CopyOut(f, o)
    \/ \E f \in pSet, ok \in BOOLEAN : Purge(f, ok)
    \/ StepDone

Spec == Init /\ [][Next]_vars

(***************************************************************************)
(* SpecModular: ModularApp._run (app/main_app.py) with the stage functions *)
(* of app/stages. It has no workspace: every stage is given out_dir, the   *)
(* output directory itself. The run uses the variables of the pipeline.    *)
(***************************************************************************)
MStageOrder == <<"m_classify", "m_convert", "m_dedupe", "m_rename">>

MConfigs ==
    { c \in [classify : BOOLEAN, convert : BOOLEAN, dedupe : BOOLEAN, rename : BOOLEAN,
             single : BOOLEAN, action : {"list", "delete"}, same : BOOLEAN] :
        /\ ~c.dedupe => ~c.same
        /\ ~c.same => c.action = "list" }

\* the condition of the `if` in front of the stage call
MEnabled(cfg, stage, files) ==
    CASE stage = "m_classify" -> cfg.classify /\ Len(files) > 1
      [] stage = "m_convert"  -> cfg.convert
      [] stage = "m_dedupe"   -> cfg.dedupe /\ Len(files) > 1
      [] stage = "m_rename"   -> cfg.rename

\* where _run goes after the k-th stage call
MNextStep(cfg, k, files) ==
    LET later == { j \in (k + 1)..Len(MStageOrder) : MEnabled(cfg, MStageOrder[j], files) }
    IN  IF later # {} THEN MStageOrder[CHOOSE j \in later : \A i \in later : j <= i]
        ELSE "done"

MStagePos(stage) == CHOOSE k \in 1..Len(MStageOrder) : MStageOrder[k] = stage

MLoopOf(step, files) ==
    CASE step \in {"m_classify", "m_convert"} -> [NoLoop EXCEPT !.queue = files]
      [] step = "m_dedupe" -> [NoLoop EXCEPT !.set = Range(files)]
      [] step = "m_rename" -> [NoLoop EXCEPT !.queue = files,
                                             !.idx = [dir |-> <<>>, idx |-> RenameStart]]
      [] OTHER -> NoLoop

MInputs(cfg) == IF cfg.single THEN <<InputFile(1)>> ELSE [i \in Items |-> InputFile(i)]

InitModular ==
    /\ pMode \in {"preview", "commit"}
    /\ pCfg \in MConfigs
    /\ pStop = FALSE
    /\ pFiles = MInputs(pCfg)
    /\ pPc = MNextStep(pCfg, 0, pFiles)
    /\ LET l == MLoopOf(pPc, pFiles)
       IN  pQueue = l.queue /\ pSet = l.set /\ pAcc = l.acc /\ pIdx = l.idx
    /\ pFs = InitialFs /\ pDirs = {} /\ pMap = {}
    /\ pTrace = <<>> /\ pLate = {} /\ pFails = 0
    /\ pFailures = {} /\ pIn = InDir /\ pRunNo = 1 /\ pOut1 = {}
    /\ IdleButP

\* classify(): one file of the loop
MClassify(outcome) ==
    /\ pPc = "m_classify" /\ pQueue # <<>>
    /\ pQueue' = Tail(pQueue)
    /\ LET f == Head(pQueue)
           dest == File(OutDir \o <<RatioLabel(f)>>, f.item, f.ext, f.idx)
       IN  CASE outcome = "unreadable" -> pAcc' = Append(pAcc, f) /\ UNCHANGED pFs
             [] outcome = "copyfail" -> pAcc' = Append(pAcc, f) /\ UNCHANGED pFs
             [] outcome = "copied" ->
                  /\ f \in pFs
                  /\ pAcc' = Append(pAcc, dest)
                  /\ pFs' = IF pMode = "preview" THEN pFs \cup {dest}
                            ELSE (pFs \ {f}) \cup {dest}
    /\ Ends(outcome = "copied")
    /\ UNCHANGED <<pRun, pStop, pPc, pFiles, pSet, pIdx, pDirs, pMap, pTrace, pLate, pFailures, pSess, notP>>

\* batch_convert(): one file of the loop
MConvert(ok) ==
    /\ pPc = "m_convert" /\ pQueue # <<>>
    /\ pQueue' = Tail(pQueue)
    /\ LET f == Head(pQueue)
           dst == File(OutDir, f.item, TargetFmt, f.idx)
       IN  IF norm_ext(f) = TargetFmt
           THEN ok /\ pAcc' = Append(pAcc, f) /\ UNCHANGED pFs
           ELSE IF ok
                THEN f \in pFs /\ pAcc' = Append(pAcc, dst) /\ pFs' = pFs \cup {dst}
                ELSE pAcc' = Append(pAcc, f) /\ UNCHANGED pFs
    /\ Ends(ok)
    /\ UNCHANGED <<pRun, pStop, pPc, pFiles, pSet, pIdx, pDirs, pMap, pTrace, pLate, pFailures, pSess, notP>>

\* compute(f) of dedupe() and its result taken from as_completed
MHash(f, readable) ==
    /\ pPc = "m_dedupe" /\ f \in pSet
    /\ pSet' = pSet \ {f}
    /\ IF readable THEN f \in pFs /\ pAcc' = Append(pAcc, f) ELSE UNCHANGED pAcc
    /\ Ends(readable)
    /\ UNCHANGED <<pRun, pStop, pPc, pFiles, pQueue, pIdx, pDisk, pTrace, pLate, pFailures, pSess, notP>>

\* dedupe() once the pool is drained: groups, keepers
MDedupeDecide ==
    /\ pPc = "m_dedupe" /\ pSet = {}
    /\ LET infos == PInfos(pAcc, pCfg.same)
       IN  /\ pPc' = "m_dedupe_act"
           /\ pQueue' = Redundant(KeeperGroups(infos, 0), PKeepMode)
           /\ pAcc' = PKept(infos, pFiles, PKeepMode)
    /\ UNCHANGED <<pRun, pStop, pFiles, pSet, pIdx, pDisk, pHist, pFailures, pSess, notP>>

\* the action of dedupe() on one redundant file; simulate_delete is `lambda p: None`
MDedupeAct(ok) ==
    /\ pPc = "m_dedupe_act" /\ pQueue # <<>>
    /\ pQueue' = Tail(pQueue)
    /\ IF pCfg.action = "delete" /\ pMode = "commit"
       THEN pFs' = IF ok THEN pFs \ {Head(pQueue)} ELSE pFs
       ELSE ok /\ UNCHANGED pFs
    /\ Ends(ok)
    /\ UNCHANGED <<pRun, pStop, pPc, pFiles, pSet, pAcc, pIdx, pDirs, pMap, pTrace, pLate, pFailures, pSess, notP>>

\* batch_rename(): one file of the loop
MRename(ok) ==
    /\ pPc = "m_rename" /\ pQueue # <<>>
    /\ pQueue' = Tail(pQueue)
    /\ LET f == Head(pQueue)
           dest == File(OutDir, f.item, norm_ext(f), pIdx.idx)
       IN  IF f \notin pFs
           THEN ok /\ UNCHANGED <<pIdx, pFs>>
           ELSE /\ pIdx' = [pIdx EXCEPT !.idx = @ + RenameStep]
                /\ pFs' = IF ok THEN pFs \cup {dest} ELSE pFs
    /\ Ends(ok)
    /\ UNCHANGED <<pRun, pStop, pPc, pFiles, pSet, pAcc, pDirs, pMap, pTrace, pLate, pFailures, pSess, notP>>

\* the stage function returns and _run goes to the next stage that is on
MStepDone ==
    /\ pPc \in {"m_classify", "m_convert", "m_dedupe_act", "m_rename"}
    /\ pQueue = <<>>
    /\ LET stage == IF pPc = "m_dedupe_act" THEN "m_dedupe" ELSE pPc
           out == IF pPc = "m_rename" THEN pFiles ELSE pAcc
           next == MNextStep(pCfg, MStagePos(stage), out)
           l == MLoopOf(next, out)
       IN  /\ pFiles' = out
           /\ pTrace' = Append(pTrace, [stage |-> stage, arg |-> pFiles, out |-> out])
           /\ pPc' = next
           /\ pQueue' = l.queue /\ pSet' = l.set /\ pAcc' = l.acc /\ pIdx' = l.idx
    /\ UNCHANGED <<pRun, pStop, pDisk, pLate, pFails, pFailures, pSess, notP>>

NextM ==
    \/ \E o \in ClassifyOutcomes : MClassify(o)
    \/ \E ok \in BOOLEAN : MConvert(ok)
    \/ \E f \in pSet, readable \in BOOLEAN : MHash(f, readable)
    \/ MDedupeDecide
    \/ \E ok \in BOOLEAN : MDedupeAct(ok)
    \/ \E ok \in BOOLEAN : MRename(ok)
    \/ MStepDone

SpecModular == InitModular /\ [][NextM]_vars

(***************************************************************************)
(* Claims on the pipeline                                                  *)
(***************************************************************************)
\* what exists outside the workspace
OutsideWorkspace(fs) == { f \in fs : ~Under(f, CacheDir) }

AllStagesOn(cfg) ==
    /\ cfg.ratio /\ cfg.shape /\ cfg.convert /\ cfg.dedupe /\ cfg.rename
    /\ cfg.action = "delete"

\* C1: in a Preview run with every stage enabled (dedupe action = delete) no path
\* outside the workspace is created, changed, moved or deleted, and the input tree
\* is what it was before the run, also when staging fails.
C1_PreviewIsolation ==
    (pMode = "preview" /\ AllStagesOn(pCfg)) => OutsideWorkspace(pFs) = InitialFs

\* C2: in a Preview run finalize is never executed and nothing under the real output
\* location, the workspace apart, is created, changed or removed.
C2_PreviewOutputUntouched ==
    pMode = "preview" =>
        /\ pPc \notin {"clear", "copy_out", "purge"}
        /\ { f \in OutsideWorkspace(pFs) : Under(f, OutDir) } = {OldOutput}

\* the place of a stage in the claimed order Classify, Convert, Dedupe, Rename
ClaimedRank(stage) ==
    CASE stage = "stage_in" -> 0
      [] stage = "ratio"    -> 1
      [] stage = "shape"    -> 2
      [] stage = "convert"  -> 3
      [] stage = "dedupe"   -> 4
      [] stage = "rename"   -> 5

\* C9: the stages that ran, ran in the order Classify, Convert, Dedupe, Rename; each
\* received the list the stage run before it returned; the list _pipeline holds is the
\* one the last stage that ran returned (a stage that is off does not change it); and
\* a run that was not cancelled has run exactly the stages that are on.
C9_StageOrderAndHandoff ==
    /\ \A i, j \in 1..Len(pTrace) :
           i < j => ClaimedRank(pTrace[i].stage) < ClaimedRank(pTrace[j].stage)
    /\ \A i \in 1..(Len(pTrace) - 1) : pTrace[i + 1].arg = pTrace[i].out
    /\ pTrace # <<>> =>
           /\ pTrace[1].stage = "stage_in"
           /\ pFiles = IF pTrace[Len(pTrace)].stage = "rename"
                       THEN pTrace[Len(pTrace)].arg ELSE pTrace[Len(pTrace)].out
    /\ pPc = "done" =>
           { pTrace[i].stage : i \in 1..Len(pTrace) } \ {"stage_in"}
               = { st \in Range(StageOrder) : Enabled(pCfg, st) }

\* C9 witness: a run with all five stages on has finished, the classify stage having
\* returned the files in another order than it received them.
C9_Witness ==
    /\ pPc = "done" /\ Len(pTrace) = 6
    /\ pTrace[2].out # pTrace[2].arg
    /\ Len(pTrace[6].arg) = NumItems

\* C10: once the flag is set, no unit of work that has not started yet performs a file
\* operation.
C10_NoWorkAfterCancel ==
    pLate = {}

\* the run is over: _pipeline has returned
RunOver == pPc \in {"done", "cancelled", "failed"}

\* C11: once a run in which cancellation was requested has ended, the status it
\* has reported to the queue is the cancelled one (with the counts of what was done)
C11_CancelReported == (RunOver /\ pStop) => LastStatus = "STATUS cancelled"

\* the stages a file is processed by
FileStages == {"ratio", "shape", "convert", "dedupe", "rename", "finalize"}

\* C12: a failure on one file never aborts the run, and each such failure has a
\* LOG message that names its stage and its path
C12_FailureContained ==
    /\ pPc # "failed"
    /\ \A e \in pFailures : e.stage \in FileStages => e.logged

\* the file finalize makes of f in the output directory
OutputOf(f) ==
    File(join(OutDir, relpath(f.dir, DeepestFinalDir(pFs, pDirs))), f.item, f.ext, f.idx)

\* C14: after a finalize nobody cancelled, every file of the walk either is in the
\* output directory or has its own recorded failure: one failure does not stop the walk
C14_FinalizeWalkContinues ==
    (pMode = "commit" /\ pPc = "done" /\ ~pStop) =>
        \A f \in WalkFiles(pFs, pDirs, pCfg.trashy) :
            \/ OutputOf(f) \in pFs
            \/ \E e \in pFailures : e.stage = "finalize" /\ e.file = f

\* C16: the original of a file whose processing failed in some stage is not deleted
C16_PurgeOnlyProcessed ==
    \A e \in pFailures :
        e.stage \in (FileStages \cup {"copy_final"}) => InputFile(e.file.item) \in pFs

\* C18: in a run without failures the rename stage numbers the files of one directory
\* in input order, whatever the order in which the tasks of the earlier stages completed
C18_RenameInInputOrder ==
    pFailures = {} => \A f, g \in pFs :
        (Under(f, CacheDir) /\ f.dir = g.dir /\ f.idx > 0 /\ g.idx > 0 /\ f.item < g.item)
            => f.idx < g.idx

\* the files of the output directory, the workspace left out
OutputFiles(fs) == { f \in fs : IsPrefix(OutDir, f.dir) /\ ~IsPrefix(CacheDir, f.dir) }

\* the paths of the files S relative to root
RelPaths(S, root) ==
    { [dir |-> relpath(f.dir, root).down, item |-> f.item, ext |-> f.ext, idx |-> f.idx] :
        f \in S }

FinalizeOver == pMode = "commit" /\ pPc \in {"purge", "done"} /\ ~pStop

\* the files below the result root (the deepest populated _final) that are not
\* inside the trash subtree of the workspace
ResultFiles(fs, dirs) ==
    { f \in fs : Under(f, DeepestFinalDir(fs, dirs)) /\ ~Under(f, CacheTrashDir) }

\* C13: after a finalize without failure or cancellation the relative paths of the
\* files in the output directory (workspace excluded) are those of the files below the
\* result root, trash excluded; nothing older is left
C13_FinalizeMirrors ==
    (FinalizeOver /\ \A e \in pFailures : e.stage \notin {"clear", "finalize"}) =>
        RelPaths(OutputFiles(pFs), OutDir)
            = RelPaths(ResultFiles(pFs, pDirs), DeepestFinalDir(pFs, pDirs))

(***************************************************************************)
(* SpecPurge: _remove_source_files on its own. The originals are the files *)
(* that were staged from the input location the run started with; in_var  *)
(* is read again when the purge starts and may name another location by    *)
(* then. The run uses the variables of the pipeline.                       *)
(***************************************************************************)
SubDir   == InDir \o <<"sub">>
OtherDir == <<"other">>

PurgeRoots == {InDir, SubDir, OtherDir}

PurgeFiles ==
    {File(InDir, 1, "jpg", 0), File(InDir, 2, "png", 0), File(SubDir, 1, "jpg", 0),
     File(OtherDir, 1, "jpg", 0)}

\* the place of an original in the workspace
Staged(f) == File(join(CacheInputDir, relpath(f.dir, InDir)), f.item, f.ext, f.idx)

PurgeConfig ==
    [ratio |-> FALSE, shape |-> FALSE, convert |-> FALSE, dedupe |-> FALSE, rename |-> FALSE,
     single |-> FALSE, purge |-> TRUE, workers |-> 1, action |-> "delete", same |-> FALSE,
     trashy |-> FALSE]

InitPurge ==
    /\ pMode = "commit" /\ pCfg = PurgeConfig
    /\ pStop \in BOOLEAN
    /\ pPc = "purge"
    /\ pFiles = <<>>
    /\ pFs = PurgeFiles /\ pDirs = {}
    /\ \E root \in PurgeRoots, staged \in SUBSET PurgeFiles :
          /\ \A f \in staged : IsPrefix(root, f.dir)
          /\ pMap = { <<Staged(f), f>> : f \in staged }
    /\ pIn \in PurgeRoots
    /\ pSet = { m[2] : m \in pMap }
    /\ pQueue = <<>> /\ pAcc = <<>> /\ pIdx = <<>>
    /\ pTrace = <<>> /\ pLate = {} /\ pFails = 0
    /\ pFailures = {} /\ pRunNo = 1 /\ pOut1 = {}
    /\ IdleButP

NextPurge ==
    \/ Cancel
    \/ \E f \in pSet, ok \in BOOLEAN : Purge(f, ok)
    \/ pPc = "purge" /\ StepDone

SpecPurge == InitPurge /\ [][NextPurge]_vars

\* C15: every file the purge has deleted lies under the input location
C15_PurgeInsideSource == \A f \in PurgeFiles \ pFs : IsPrefix(pIn, f.dir)

\* the purge is over: it has deleted an original and has left alone one that
\* exists outside the input location
C15_Witness ==
    /\ pPc = "done" /\ ~pStop
    /\ PurgeFiles \ pFs # {}
    /\ \E m \in pMap : m[2] \in pFs /\ ~IsPrefix(pIn, m[2].dir)

(***************************************************************************)
(* SpecTwice: Commit started twice in a row on the same input with the     *)
(* same settings, no source purge, nothing failing and nobody cancelling.  *)
(* In the workspace a rename destination never exists before it is         *)
(* written, so the overwrite policy (skip included) is never consulted.    *)
(***************************************************************************)
InitTwice == Init /\ pMode = "commit" /\ ~pCfg.purge

\* _start(write_to_output=True) once the first run has ended: the map and the
\* workspace are cleared, the input is scanned again, the worker is started
Restart ==
    /\ pPc = "done" /\ pRunNo = 1
    /\ pRunNo' = 2
    /\ pOut1' = OutputFiles(pFs)
    /\ pMap' = {}
    /\ pFs' = { f \in pFs : ~Under(f, CacheDir) }
    /\ pDirs' = {}
    /\ pFiles' = IF pCfg.single THEN <<InputFile(1)>> ELSE [i \in Items |-> InputFile(i)]
    /\ pStop' = FALSE
    /\ pTrace' = <<>>
    /\ EnterStep("stage_in")
    /\ UNCHANGED <<pRun, pLate, pFails, pFailures, pIn, notP>>

NextTwice ==
    \/ StageInput("ok")
    \/ \E f \in pSet : Classify(f, "copied")
    \/ \E f \in pSet : Convert(f, "ok")
    \/ \E f \in pSet : Hash(f, TRUE)
    \/ DedupeDecide
    \/ DedupeAct(TRUE)
    \/ Rename("ok")
    \/ CopyFinal(TRUE)
    \/ \E f \in pSet : Clear(f, TRUE)
    \/ \E f \in pSet : CopyOut(f, "ok")
    \/ StepDone
    \/ Restart

SpecTwice == InitTwice /\ [][NextTwice]_vars

\* C17: when the second of two identical Commit runs has ended, the output directory
\* holds exactly the files it held when the first run ended
C17_CommitIdempotent ==
    (pRunNo = 2 /\ pPc = "done") => OutputFiles(pFs) = pOut1

(***************************************************************************)
(* SpecRatio: the label a ratio classification gives one image, in         *)
(* classify_one of _ratio_classify_stage ("app") and in classify of        *)
(* app/stages/classify.py ("modular"). Tolerances are in thousandths.      *)
(* A ratio is [rw, rh] and stands for its label too ('{rw}x{rh}');         *)
(* NoRatio is the label `other`.                                           *)
(***************************************************************************)
Ratio(rw, rh) == [rw |-> rw, rh |-> rh]
NoRatio == Ratio(0, 0)

ImageSizes ==
    {<<800, 600>>, <<1000, 400>>, <<1600, 900>>, <<600, 800>>, <<142, 100>>,
     <<7, 5>>, <<21, 20>>, <<424, 225>>}

RatioTexts ==
    { <<Ratio(4, 3)>>,
      <<Ratio(1, 1)>>,
      \* the default list of _parse_custom_ratios
      <<Ratio(16, 9), Ratio(3, 2), Ratio(4, 3), Ratio(1, 1), Ratio(21, 9)>>,
      \* the default list of parse_custom_ratios
      <<Ratio(16, 9), Ratio(16, 10), Ratio(4, 3), Ratio(3, 2), Ratio(5, 4), Ratio(21, 9),
        Ratio(1, 1)>> }

Tolerances == {50, 60, 150}

Abs(x) == IF x < 0 THEN -x ELSE x

\* |w/h - rw/rh| / (rw/rh) <= tol/1000 over the rationals
ExactWithin(w, h, r, tol) == Abs(w * r.rh - r.rw * h) * 1000 <= tol * r.rw * h

\* the sampled inputs for which the quotient, equal to the tolerance over the
\* rationals, is rounded to a double above the tolerance
RoundedAbove == {<<21, 20, Ratio(1, 1), 50>>, <<424, 225, Ratio(16, 9), 60>>}

\* abs(ratio-ideal)/ideal <= tol as double arithmetic evaluates it
Within(w, h, r, tol) == ExactWithin(w, h, r, tol) /\ <<w, h, r, tol>> \notin RoundedAbove

\* diff of ratio a < diff of ratio b
Closer(w, h, a, b) == Abs(w * a.rh - a.rw * h) * b.rw < Abs(w * b.rh - b.rw * h) * a.rw

\* the first ratio of the list within tolerance, `other` when there is none
FirstWithin(in) ==
    LET hits == { i \in 1..Len(in.ratios) : Within(in.w, in.h, in.ratios[i], in.tol) }
    IN  IF hits = {} THEN NoRatio
        ELSE in.ratios[CHOOSE i \in hits : \A j \in hits : i <= j]

\* best[0]: the first ratio of the list with the least diff
Nearest(in) ==
    in.ratios[CHOOSE i \in 1..Len(in.ratios) :
                /\ \A j \in 1..(i - 1) : Closer(in.w, in.h, in.ratios[i], in.ratios[j])
                /\ \A j \in (i + 1)..Len(in.ratios) :
                       ~Closer(in.w, in.h, in.ratios[j], in.ratios[i])]

\* the folder below base_out, as [am, label]: label, or AM/label
classify_one(in) == [am |-> in.animated, label |-> FirstWithin(in)]

classify(in) ==
    [am |-> FALSE,
     label |-> IF FirstWithin(in) = NoRatio /\ in.snap THEN Nearest(in) ELSE FirstWithin(in)]

InitRatio ==
    /\ cIn \in [impl : {"app", "modular"}, w : {s[1] : s \in ImageSizes},
                 h : {s[2] : s \in ImageSizes}, animated : BOOLEAN,
                 ratios : RatioTexts, tol : Tolerances, snap : BOOLEAN]
    /\ <<cIn.w, cIn.h>> \in ImageSizes
    /\ cFolder = <<>>
    /\ IdleButC

RatioClassify ==
    /\ cIn # <<>> /\ cFolder = <<>>
    /\ cFolder' = IF cIn.impl = "app" THEN classify_one(cIn) ELSE classify(cIn)
    /\ UNCHANGED <<cIn, notC>>

NextRatio == RatioClassify

SpecRatio == InitRatio /\ [][NextRatio]_vars

\* C19: with snap off the image goes to the label folder of a configured ratio that is
\* within the tolerance of its w/h, and to `other` exactly when no configured ratio is
C19_RatioRouting ==
    (cFolder # <<>> /\ ~cIn.snap) =>
        LET near == { i \in 1..Len(cIn.ratios) :
                        ExactWithin(cIn.w, cIn.h, cIn.ratios[i], cIn.tol) }
        IN  /\ ~cFolder.am
            /\ IF near = {} THEN cFolder.label = NoRatio
               ELSE \E i \in near : cFolder.label = cIn.ratios[i]

(***************************************************************************)
(* SpecEnsure: the life cycle of the workspace directory: _ensure_cache_dir *)
(* and _clear_cache called in any order, the stages making directories in  *)
(* between. The output location does not change.                           *)
(***************************************************************************)
InnerFinalDir == CacheFinalDir \o <<"_final">>

WorkspaceDirs == {CacheDir, CacheInputDir, CacheFinalDir, CacheTrashDir, InnerFinalDir}

\* cache_dir = cache_trash_dir = cache_final_dir = None
NoAttrs == [cache_dir |-> <<>>, cache_trash_dir |-> <<>>, cache_final_dir |-> <<>>]

SetAttrs ==
    [cache_dir |-> CacheDir, cache_trash_dir |-> CacheTrashDir, cache_final_dir |-> CacheFinalDir]

\* the early return is left out: the workspace is set up again on every call
EnsureReturnsEarlyNever(attr, disk) == FALSE

\* `if self.cache_dir and os.path.exists(self.cache_dir): return`
EnsureReturnsEarly(attr, disk) == attr.cache_dir # <<>> /\ attr.cache_dir \in disk

\* what an earlier session may have left on disk
Leftovers ==
    { {}, {CacheDir, CacheFinalDir, CacheTrashDir},
      {CacheDir, CacheInputDir, CacheFinalDir, CacheTrashDir},
      WorkspaceDirs }

InitEnsure ==
    /\ eDisk \in Leftovers
    /\ eAttr = NoAttrs
    /\ eBefore = [disk |-> eDisk, attr |-> eAttr]
    /\ eLast = "none"
    /\ IdleButE

\* _ensure_cache_dir; inner_removed: the rmtree of _final/_final did not raise
Ensure(inner_removed) ==
    /\ eLast # "idle"
    /\ eBefore' = [disk |-> eDisk, attr |-> eAttr]
    /\ eLast' = "ensure"
    /\ IF EnsureReturnsEarly(eAttr, eDisk)
       THEN inner_removed /\ UNCHANGED <<eDisk, eAttr>>
       ELSE /\ eAttr' = SetAttrs
            /\ (~inner_removed) => InnerFinalDir \in eDisk
            /\ eDisk' = (eDisk \cup {CacheDir, CacheTrashDir, CacheFinalDir})
                            \ (IF inner_removed THEN {InnerFinalDir} ELSE {})
    /\ UNCHANGED notE

\* _clear_cache; removed: the directories rmtree took away before it returned or raised
ClearCache(removed) ==
    /\ eLast # "idle"
    /\ eBefore' = [disk |-> eDisk, attr |-> eAttr]
    /\ eLast' = "clear"
    /\ IF eAttr.cache_dir # <<>> /\ eAttr.cache_dir \in eDisk
       THEN /\ removed \subseteq eDisk
            \* a directory goes after everything below it
            /\ \A d \in removed : \A e \in eDisk : IsPrefix(d, e) => e \in removed
            /\ eDisk' = eDisk \ removed
            /\ eAttr' = IF CacheDir \in removed THEN NoAttrs ELSE eAttr
       ELSE removed = {} /\ UNCHANGED <<eDisk, eAttr>>
    /\ UNCHANGED notE

\* os.makedirs(d, exist_ok=True) of a stage that has called _ensure_cache_dir
MakeDirs(d) ==
    /\ eLast \in {"ensure", "makedirs"}
    /\ d \in {CacheInputDir, InnerFinalDir}
    /\ eBefore' = [disk |-> eDisk, attr |-> eAttr]
    /\ eLast' = "makedirs"
    /\ eDisk' = eDisk \cup { SubSeq(d, 1, n) : n \in Len(CacheDir)..Len(d) }
    /\ UNCHANGED <<eAttr, notE>>

NextE ==
    \/ \E inner_removed \in BOOLEAN : Ensure(inner_removed)
    \/ \E removed \in SUBSET WorkspaceDirs : ClearCache(removed)
    \/ \E d \in WorkspaceDirs : MakeDirs(d)

SpecEnsure == InitEnsure /\ [][NextE]_vars

TrashOf(f) == File(CacheTrashDir, f.item, f.ext, f.idx)

\* the paths of the stage's argument the keeper loop took for redundant
DroppedByDedupe == Range(pFiles) \ Range(pAcc)

\* C21: with action = delete, when the keeper loop of the dedupe stage is over, every
\* file the stage keeps is still in place and every redundant member is gone from its
\* place: moved into the trash subtree in Preview, deleted (in no trash) in Commit
C21_DeleteLeavesKeeper ==
    (pPc = "dedupe_act" /\ pQueue = <<>> /\ pCfg.action = "delete") =>
        /\ \A k \in Range(pAcc) :
               k \in pFs \/ [stage |-> "dedupe", file |-> k, logged |-> FALSE] \in pFailures
        /\ \A r \in DroppedByDedupe :
               /\ r \notin pFs
               /\ TrashOf(r) \in pFs <=> pMode = "preview"

\* path f has a record in a group of more than one record
InDupGroup(groups, f) ==
    \E k \in 1..Len(groups) :
        Len(groups[k]) > 1 /\ \E j \in 1..Len(groups[k]) : groups[k][j].path = f

\* how often path f occurs in the list
CountIn(list, f) == Cardinality({ i \in 1..Len(list) : list[i] = f })

\* C22: every input path of the dedupe stage that is in no duplicate group, be it a
\* file compute() gave no record for or the only member of its group, occurs exactly
\* once, as it was given, in the list the stage returns
C22_PassThrough ==
    dPc = "done" =>
        \A f \in Files :
            ~InDupGroup(GroupLoop(dInfos, dTh), f) => CountIn(dKept, f) = 1

\* C22 witness: the stage has returned; one file could not be decoded and is passed
\* on once, while the other files form a duplicate group that loses a member
C22_Witness ==
    /\ dPc = "done"
    /\ \E f \in Files :
         /\ dMeta[f] = Unreadable /\ CountIn(dKept, f) = 1
         /\ \A h \in Files \ {f} : InDupGroup(GroupLoop(dInfos, dTh), h)
    /\ Len(dKept) < NumFiles

\* the distance the grouper compares with the threshold
HashDistance(a, b) == hamming(a.ah, b.ah) + hamming(a.dh, b.dh)

\* the groups are what a greedy, representative-only pass over the records gives:
\* groups and members stand in input order, a member is within th of its own
\* representative, and no record is within th of the representative of an earlier group
GreedyByRepresentative(groups, th) ==
    /\ \A i, k \in 1..Len(groups) : i < k => groups[i][1].path < groups[k][1].path
    /\ \A i \in 1..Len(groups) : \A j \in 1..Len(groups[i]) :
          /\ j > 1 => /\ groups[i][j - 1].path < groups[i][j].path
                      /\ HashDistance(groups[i][j], groups[i][1]) <= th
          /\ \A k \in 1..(i - 1) : HashDistance(groups[i][j], groups[k][1]) > th

\* C23: with a positive threshold every record joins the first group, in creation
\* order, whose first member is within the threshold of it (sum of the two Hamming
\* distances), no other member being compared, or starts a new group; the groups of
\* the command-line tool, which skips a group when the average hashes alone are
\* further apart than the threshold, are the same duplicate groups
C23_GreedyRepresentative ==
    (gPc # "hashed" /\ gTh > 0) =>
        /\ GreedyByRepresentative(gGroups, gTh)
        /\ gCliGroups = DupGroups(gGroups)

\* C23 witness: positive threshold; a record within the threshold of a member of an
\* earlier group, but not of its representative, starts a group of its own, and the
\* coarse filter of the command-line tool has skipped that group for it
C23_Witness ==
    /\ gPc = "grouped" /\ gTh > 0
    /\ \E i, k \in 1..Len(gGroups) :
          /\ i < k /\ Len(gGroups[i]) > 1
          /\ HashDistance(gGroups[k][1], gGroups[i][2]) <= gTh
          /\ hamming(gGroups[k][1].ah, gGroups[i][1].ah) > gTh

(***************************************************************************)
(* SpecConvert: _convert_stage_only on the files of one directory, with    *)
(* do_one(i, f) run in order or on the thread pool. Names are [stem, ext]; *)
(* the destination directory starts empty.                                 *)
(***************************************************************************)
MaxConvert == 3

ConvStems == 1..2
ConvExts == {"jpg", "bmp", "png"}

ConvName(stem, ext) == [stem |-> stem, ext |-> ext]

\* `files`: distinct names of one directory
ConvLists ==
    UNION { { l \in [1..n -> [stem : ConvStems, ext : ConvExts]] :
                \A i, j \in 1..n : i # j => l[i] # l[j] }
            : n \in 2..MaxConvert }

\* need_convert of do_one, enable_convert being set
need_convert(f, same) == f.ext # TargetFmt \/ same

\* the destination name of do_one: out_name for a conversion, the basename for a copy
ConvDest(f, same) == IF need_convert(f, same) THEN ConvName(f.stem, TargetFmt) ELSE f

\* an entry of `results`: the destination, or the source path on a failed conversion
ConvResult(at, name) == [at |-> at, name |-> name]
NoResult == ConvResult("none", ConvName(0, ""))

\* the destination directory after `name` was written from source `from`
Written(disk, name, from) ==
    { e \in disk : e.name # name } \cup {[name |-> name, from |-> from]}

\* `workers>1 and len(files)>1`: the pool is used
Pooled == vWorkers > 1 /\ Len(vFiles) > 1

InitConvert ==
    /\ vFiles \in ConvLists
    /\ vSame \in BOOLEAN
    /\ vWorkers \in 1..MaxWorkers
    /\ vTask = [i \in 1..Len(vFiles) |-> "queued"]
    /\ vDisk = {}
    /\ vResults = [i \in 1..Len(vFiles) |-> NoResult]
    /\ vWrote = {}
    /\ IdleButV

\* do_one(i, f) begins: the next iteration of the plain loop, or a pool thread that
\* takes the next submitted task
ConvStart(i) ==
    /\ i \in 1..Len(vFiles) /\ vTask[i] = "queued"
    /\ \A j \in 1..(i - 1) : vTask[j] # "queued"
    /\ IF Pooled
       THEN Cardinality({ j \in 1..Len(vFiles) : vTask[j] \in {"running", "checked"} }) < vWorkers
       ELSE \A j \in 1..(i - 1) : vTask[j] = "done"
    /\ vTask' = [vTask EXCEPT ![i] = "running"]
    /\ UNCHANGED <<vFiles, vSame, vWorkers, vDisk, vResults, vWrote, notV>>

\* do_one, conversion branch: convert_one(f, dest) saves over whatever dest holds
DoOneConvert(i, ok) ==
    /\ i \in 1..Len(vFiles) /\ vTask[i] = "running"
    /\ need_convert(vFiles[i], vSame)
    /\ LET dest == ConvDest(vFiles[i], vSame)
       IN  IF ok
           THEN /\ vDisk' = Written(vDisk, dest, vFiles[i])
                /\ vWrote' = vWrote \cup {<<i, dest>>}
                /\ vResults' = [vResults EXCEPT ![i] = ConvResult("dest", dest)]
           ELSE /\ UNCHANGED <<vDisk, vWrote>>
                /\ vResults' = [vResults EXCEPT ![i] = ConvResult("src", vFiles[i])]
    /\ vTask' = [vTask EXCEPT ![i] = "done"]
    /\ UNCHANGED <<vFiles, vSame, vWorkers, notV>>

\* do_one, copy branch: `if not os.path.exists(dest_placeholder)`
DoOneExists(i) ==
    /\ i \in 1..Len(vFiles) /\ vTask[i] = "running"
    /\ ~need_convert(vFiles[i], vSame)
    /\ IF \E e \in vDisk : e.name = vFiles[i]
       THEN /\ vTask' = [vTask EXCEPT ![i] = "done"]
            /\ vResults' = [vResults EXCEPT ![i] = ConvResult("dest", vFiles[i])]
       ELSE /\ vTask' = [vTask EXCEPT ![i] = "checked"]
            /\ UNCHANGED vResults
    /\ UNCHANGED <<vFiles, vSame, vWorkers, vDisk, vWrote, notV>>

\* do_one, copy branch: shutil.copy2(f, dest_placeholder); the result is the
\* destination whether or not the copy raised
DoOneCopy(i, ok) ==
    /\ i \in 1..Len(vFiles) /\ vTask[i] = "checked"
    /\ IF ok
       THEN /\ vDisk' = Written(vDisk, vFiles[i], vFiles[i])
            /\ vWrote' = vWrote \cup {<<i, vFiles[i]>>}
       ELSE UNCHANGED <<vDisk, vWrote>>
    /\ vResults' = [vResults EXCEPT ![i] = ConvResult("dest", vFiles[i])]
    /\ vTask' = [vTask EXCEPT ![i] = "done"]
    /\ UNCHANGED <<vFiles, vSame, vWorkers, notV>>

NextConvert ==
    \/ \E i \in 1..MaxConvert : ConvStart(i)
    \/ \E i \in 1..MaxConvert, ok \in BOOLEAN : DoOneConvert(i, ok)
    \/ \E i \in 1..MaxConvert : DoOneExists(i)
    \/ \E i \in 1..MaxConvert, ok \in BOOLEAN : DoOneCopy(i, ok)

SpecConvert == InitConvert /\ [][NextConvert]_vars

\* the destination directory after do_one has run on files[k..] one after the other,
\* every conversion and copy succeeding
RECURSIVE InOrderDisk(_, _, _, _)
InOrderDisk(disk, files, same, k) ==
    IF k > Len(files) THEN disk
    ELSE LET f == files[k]
             next == IF need_convert(f, same) THEN Written(disk, ConvDest(f, same), f)
                     ELSE IF \E e \in disk : e.name = f THEN disk
                     ELSE Written(disk, f, f)
         IN  InOrderDisk(next, files, same, k + 1)

\* every task is over and none has failed
ConvertedAll ==
    /\ \A i \in 1..Len(vFiles) : vTask[i] = "done" /\ vResults[i].at = "dest"
    /\ \A i \in 1..Len(vFiles) :
          \/ <<i, ConvDest(vFiles[i], vSame)>> \in vWrote
          \/ ~need_convert(vFiles[i], vSame) /\ \E e \in vDisk : e.name = vFiles[i]

\* C24: within the convert stage no two tasks of a run write the same destination
\* path, and when all tasks have succeeded the destination files are those the tasks
\* leave when run one after the other in list order, whatever order they ran in
C24_IndependentDestinations ==
    /\ \A a, b \in vWrote : a[1] # b[1] => a[2] # b[2]
    /\ ConvertedAll => vDisk = InOrderDisk({}, vFiles, vSame, 1)

\* the final subtrees of the workspace that hold at least one file
PopulatedFinals(fs, dirs) ==
    { d \in WsDirs(dirs) : /\ Len(d) > Len(CacheDir) /\ d[Len(d)] = "_final"
                           /\ \E f \in fs : Under(f, d) }

\* C25: when finalize looks for its source, the result root it takes is the deepest
\* final subtree of the workspace that holds at least one file
C25_DeepestPopulated ==
    (pPc \in {"clear", "copy_out"} /\ PopulatedFinals(pFs, pDirs) # {}) =>
        /\ DeepestFinalDir(pFs, pDirs) \in PopulatedFinals(pFs, pDirs)
        /\ \A d \in PopulatedFinals(pFs, pDirs) : Len(d) <= Len(DeepestFinalDir(pFs, pDirs))

(***************************************************************************)
(* SpecHash: the average and difference hashes of the four modules, on a   *)
(* grid as im.convert('L').resize(...).getdata() gives it. A hash value is *)
(* held as the set of the positions of its 1-bits (position 0 = 2^0), so   *)
(* that `|= 1 << i` adds position i and `<< 1` moves every position up.    *)
(***************************************************************************)
HashSize == 8
AhashPixels == HashSize * HashSize
DhashPixels == (HashSize + 1) * HashSize

\* the gray values of the sample grids
Grays == <<10, 200>>
Dark == Grays[1]
Bright == Grays[2]

\* pixels that are varied in the 8x8 grid: the first two, the last
AhashProbes == {0, 1, AhashPixels - 1}
\* in the 9x8 grid: the first two of row 0, the last of row 0, the first of row 1,
\* the last of the grid
DhashProbes == {0, 1, HashSize, HashSize + 1, DhashPixels - 1}

AhashGrids ==
    { [i \in 0..(AhashPixels - 1) |-> IF i \in S THEN Bright ELSE Dark] : S \in SUBSET AhashProbes }
DhashGrids ==
    { [i \in 0..(DhashPixels - 1) |-> IF i \in S THEN Bright ELSE Dark] : S \in SUBSET DhashProbes }

\* the value of hOut before the call; no hash value, and the loops below stop on it
NoHash == {-1}

\* sum(pixels) over grid[lo..hi-1], added up by halves
RECURSIVE PixelSum(_, _, _)
PixelSum(grid, lo, hi) ==
    IF hi - lo = 1 THEN grid[lo]
    ELSE LET mid == (lo + hi) \div 2
         IN  PixelSum(grid, lo, mid) + PixelSum(grid, mid, hi)

\* bits << 1
ShiftLeft(bits) == { k + 1 : k \in bits }

\* 图片工具.py ahash: `for i,p in enumerate(...): if p>=avg: bits|=1<<i`, avg = sum/64.0
RECURSIVE ahash_from(_, _, _, _)
ahash_from(grid, total, i, bits) ==
    IF i = AhashPixels \/ bits = NoHash THEN bits
    ELSE ahash_from(grid, total, i + 1,
            IF AhashPixels * grid[i] >= total
            THEN bits \cup {i} ELSE bits)
ahash(grid) == ahash_from(grid, PixelSum(grid, 0, AhashPixels), 0, {})

\* app/stages/dedupe.py ahash
RECURSIVE ahash_stage_from(_, _, _, _)
ahash_stage_from(grid, total, i, bits) ==
    IF i = AhashPixels \/ bits = NoHash THEN bits
    ELSE ahash_stage_from(grid, total, i + 1,
            IF AhashPixels * grid[i] >= total
            THEN bits \cup {i} ELSE bits)
ahash_stage(grid) == ahash_stage_from(grid, PixelSum(grid, 0, AhashPixels), 0, {})

\* 重复图片清理.py ahash: `for p in pixels: bits = (bits << 1) | (1 if p >= avg else 0)`
RECURSIVE ahash_cli_from(_, _, _, _)
ahash_cli_from(grid, total, i, bits) ==
    IF i = AhashPixels \/ bits = NoHash THEN bits
    ELSE ahash_cli_from(grid, total, i + 1,
            ShiftLeft(bits) \cup
            (IF AhashPixels * grid[i] >= total THEN {0} ELSE {}))
ahash_cli(grid) == ahash_cli_from(grid, PixelSum(grid, 0, AhashPixels), 0, {})

\* 统一工具窗口.py ahash: the same loop as the command-line tool
RECURSIVE ahash_window_from(_, _, _, _)
ahash_window_from(grid, total, i, bits) ==
    IF i = AhashPixels \/ bits = NoHash THEN bits
    ELSE ahash_window_from(grid, total, i + 1,
            ShiftLeft(bits) \cup
            (IF AhashPixels * grid[i] >= total THEN {0} ELSE {}))
ahash_window(grid) == ahash_window_from(grid, PixelSum(grid, 0, AhashPixels), 0, {})

\* 图片工具.py dhash: rows of 9, `if row[c] > row[c+1]: bits|=1<<idx; idx+=1`
RECURSIVE dhash_from(_, _, _)
dhash_from(grid, idx, bits) ==
    IF idx = HashSize * HashSize \/ bits = NoHash THEN bits
    ELSE LET r == idx \div HashSize
             c == idx % HashSize
             row == [k \in 0..HashSize |-> grid[r * (HashSize + 1) + k]]
         IN  dhash_from(grid, idx + 1, IF row[c] > row[c + 1] THEN bits \cup {idx} ELSE bits)
dhash(grid) == dhash_from(grid, 0, {})

\* app/stages/dedupe.py dhash
RECURSIVE dhash_stage_from(_, _, _)
dhash_stage_from(grid, idx, bits) ==
    IF idx = HashSize * HashSize \/ bits = NoHash THEN bits
    ELSE LET r == idx \div HashSize
             c == idx % HashSize
             row == [k \in 0..HashSize |-> grid[r * (HashSize + 1) + k]]
         IN  dhash_stage_from(grid, idx + 1, IF row[c] > row[c + 1] THEN bits \cup {idx} ELSE bits)
dhash_stage(grid) == dhash_stage_from(grid, 0, {})

\* 重复图片清理.py dhash: `bits = (bits << 1) | (1 if row_pixels[x] > row_pixels[x + 1] else 0)`
RECURSIVE dhash_cli_from(_, _, _)
dhash_cli_from(grid, idx, bits) ==
    IF idx = HashSize * HashSize \/ bits = NoHash THEN bits
    ELSE LET r == idx \div HashSize
             x == idx % HashSize
             row_pixels == [k \in 0..HashSize |-> grid[r * (HashSize + 1) + k]]
         IN  dhash_cli_from(grid, idx + 1,
                ShiftLeft(bits) \cup (IF row_pixels[x] > row_pixels[x + 1] THEN {0} ELSE {}))
dhash_cli(grid) == dhash_cli_from(grid, 0, {})

\* 统一工具窗口.py dhash: the loop over the rows only binds `row`; bits stays 0
dhash_window(grid) == {}

AhashImpls == {"ahash", "ahash_stage", "ahash_cli", "ahash_window"}
DhashImpls == {"dhash", "dhash_stage", "dhash_cli", "dhash_window"}

\* no call yet
NoCall == [impl |-> "none", bits |-> NoHash]

InitHash ==
    /\ hA \in AhashGrids
    /\ hD \in DhashGrids
    /\ hOut = NoCall
    /\ IdleButH

\* one of the ahash functions is called on the 8x8 grid
CallAhash(m) ==
    /\ m \in AhashImpls /\ hOut = NoCall
    /\ hOut' = [impl |-> m,
                bits |-> CASE m = "ahash"        -> ahash(hA)
                           [] m = "ahash_stage"  -> ahash_stage(hA)
                           [] m = "ahash_cli"    -> ahash_cli(hA)
                           [] m = "ahash_window" -> ahash_window(hA)]
    /\ UNCHANGED <<hA, hD, notH>>

\* one of the dhash functions is called on the 9x8 grid
CallDhash(m) ==
    /\ m \in DhashImpls /\ hOut = NoCall
    /\ hOut' = [impl |-> m,
                bits |-> CASE m = "dhash"        -> dhash(hD)
                           [] m = "dhash_stage"  -> dhash_stage(hD)
                           [] m = "dhash_cli"    -> dhash_cli(hD)
                           [] m = "dhash_window" -> dhash_window(hD)]
    /\ UNCHANGED <<hA, hD, notH>>

NextHash ==
    \/ \E m \in AhashImpls : CallAhash(m)
    \/ \E m \in DhashImpls : CallDhash(m)

SpecHash == InitHash /\ [][NextHash]_vars

\* the positions 0..63 of a 64-bit value
Bits64 == 0..(HashSize * HashSize - 1)

\* C26: for every 8x8 grid and every ahash of the repository, bit i of the result is 1
\* exactly when pixel i (row-major, bit 0 = first pixel) is at least the mean of the 64
\* pixels, and the result has no bit above bit 63
C26_AhashBits ==
    hOut.impl \in AhashImpls =>
        /\ hOut.bits \subseteq Bits64
        /\ \A i \in Bits64 :
              i \in hOut.bits <=> AhashPixels * hA[i] >= PixelSum(hA, 0, AhashPixels)

\* the bit of (row, x) in a value whose bits are laid out in scan order from bit 0
\* up, or from bit 63 down
ScanOrders == { [k \in Bits64 |-> k], [k \in Bits64 |-> HashSize * HashSize - 1 - k] }

\* C27: for every 9x8 grid and every dhash of the repository, the result has 64 bits,
\* one for each (row, x), x in 0..7, taken in row-major scan order, and the bit of
\* (row, x) is 1 exactly when pixel x of the row is strictly greater than pixel x+1
C27_DhashBits ==
    hOut.impl \in DhashImpls =>
        /\ hOut.bits \subseteq Bits64
        /\ \E pos \in ScanOrders :
              \A r, x \in 0..(HashSize - 1) :
                  pos[r * HashSize + x] \in hOut.bits
                      <=> hD[r * (HashSize + 1) + x] > hD[r * (HashSize + 1) + x + 1]

\* C28: in Commit mode, once a run in which cancellation was requested is over, the
\* output directory holds what it held before the run, or the whole result set: the
\* files below the result root mirrored into it and nothing else
C28_CancelLeavesOldOrNew ==
    (pMode = "commit" /\ pStop /\ RunOver /\ pFailures = {} /\ ~pCfg.trashy) =>
        \/ OutputFiles(pFs) = {OldOutput}
        \/ RelPaths(OutputFiles(pFs), OutDir)
               = RelPaths(ResultFiles(pFs, pDirs), DeepestFinalDir(pFs, pDirs))

(***************************************************************************)
(* SpecInPlace: Commit with the output location equal to the input         *)
(* location (out_var names the input directory, or is empty and real_out   *)
(* falls back to in_var), source purge off, nothing failing and nobody     *)
(* cancelling. The input directory is the directory OutDir of the          *)
(* pipeline; it holds the images and one file that is no image.            *)
(***************************************************************************)
InPlaceFile(i) == File(OutDir, i, IF i = 1 THEN "jpg" ELSE "png", 0)

\* a file of the input directory the scan leaves out
NotesFile == File(OutDir, 0, "txt", 0)

InPlaceTree == { InPlaceFile(i) : i \in Items } \cup {NotesFile}

InitInPlace ==
    /\ pMode = "commit"
    /\ pCfg \in Configs /\ ~pCfg.purge /\ ~pCfg.trashy /\ ~pCfg.single
    /\ pStop = FALSE
    /\ pPc = "stage_in"
    /\ pFiles = [i \in Items |-> InPlaceFile(i)]
    /\ pQueue = pFiles /\ pSet = {} /\ pAcc = <<>> /\ pIdx = <<>>
    /\ pFs = InPlaceTree /\ pDirs = {} /\ pMap = {}
    /\ pTrace = <<>> /\ pLate = {} /\ pFails = 0
    /\ pFailures = {} /\ pIn = OutDir /\ pRunNo = 1 /\ pOut1 = {}
    /\ IdleButP

NextInPlace ==
    \/ StageInput("ok")
    \/ \E f \in pSet : Classify(f, "copied")
    \/ \E f \in pSet : Convert(f, "ok")
    \/ \E f \in pSet : Hash(f, TRUE)
    \/ DedupeDecide
    \/ DedupeAct(TRUE)
    \/ Rename("ok")
    \/ CopyFinal(TRUE)
    \/ \E f \in pSet : Clear(f, TRUE)
    \/ \E f \in pSet : CopyOut(f, "ok")
    \/ StepDone

SpecInPlace == InitInPlace /\ [][NextInPlace]_vars

\* C29: with source purge off, when a Commit run whose output location is its input
\* location is over, every file the input tree held before the run is still there
C29_InputTreeKept ==
    RunOver => InPlaceTree \subseteq pFs

(***************************************************************************)
(* SpecCallbacks: the worker thread of a run and the callbacks of the      *)
(* interface thread that touch the workspace: the trace on out_var         *)
(* (_on_out_dir_change) and the log drain (_drain, which appends to        *)
(* program.log in the workspace). A workspace is named by the output       *)
(* location it lies in. Each call runs as one step; the two threads        *)
(* interleave between calls.                                               *)
(***************************************************************************)
MaxStages == 4

\* the values the output entry can take
OutLocations == {"A", "B"}

\* _ensure_cache_dir: what it leaves in cache_dir and on disk
EnsuredAttr(attr, disk, out) == IF attr # "none" /\ attr \in disk THEN attr ELSE out
EnsuredDisk(attr, disk, out) == disk \cup {EnsuredAttr(attr, disk, out)}

\* _clear_cache: rmtree of the recorded root; the attributes are reset when it succeeds
ClearedAttr(attr, disk, ok) == IF attr # "none" /\ attr \in disk /\ ok THEN "none" ELSE attr
ClearedDisk(attr, disk, ok) == IF attr # "none" /\ attr \in disk /\ ok THEN disk \ {attr} ELSE disk

InitCallbacks ==
    /\ uOut \in OutLocations
    /\ uDisk = {} /\ uAttr = "none"
    /\ uRun = "idle" /\ uStage = 0
    /\ uUsed = {} /\ uTorn = FALSE
    /\ IdleButU

\* _start: refused while the worker is alive; _clear_cache, _ensure_cache_dir, and the
\* worker thread is started
StartRun(ok) ==
    /\ uRun # "running"
    /\ LET attr == ClearedAttr(uAttr, uDisk, ok)
           disk == ClearedDisk(uAttr, uDisk, ok)
       IN  /\ uAttr' = EnsuredAttr(attr, disk, uOut)
           /\ uDisk' = EnsuredDisk(attr, disk, uOut)
    /\ uRun' = "running" /\ uStage' = 0
    /\ uUsed' = {} /\ uTorn' = FALSE
    /\ UNCHANGED <<uOut, notU>>

\* the worker: a stage calls _ensure_cache_dir and writes below cache_final_dir
StageCall ==
    /\ uRun = "running" /\ uStage < MaxStages
    /\ uAttr' = EnsuredAttr(uAttr, uDisk, uOut)
    /\ uDisk' = EnsuredDisk(uAttr, uDisk, uOut)
    /\ uUsed' = uUsed \cup {uAttr'}
    /\ uStage' = uStage + 1
    /\ UNCHANGED <<uOut, uRun, uTorn, notU>>

\* the worker: _pipeline returns
RunEnds ==
    /\ uRun = "running" /\ uStage = MaxStages
    /\ uRun' = "done"
    /\ UNCHANGED <<uOut, uDisk, uAttr, uStage, uUsed, uTorn, notU>>

\* the user edits the output entry: the trace calls _on_out_dir_change, that is
\* _clear_cache, whether or not a run is in progress
OutDirChange(d, ok) ==
    /\ d \in OutLocations
    /\ uOut' = d
    /\ uAttr' = ClearedAttr(uAttr, uDisk, ok)
    /\ uDisk' = ClearedDisk(uAttr, uDisk, ok)
    /\ uTorn' = (uTorn \/ (uRun = "running" /\ uAttr \in uUsed /\ uAttr \notin uDisk'))
    /\ UNCHANGED <<uRun, uStage, uUsed, notU>>

\* _drain takes a message off the queue: _append_cache_program_log calls
\* _ensure_cache_dir and appends to program.log
Drain ==
    /\ uAttr' = EnsuredAttr(uAttr, uDisk, uOut)
    /\ uDisk' = EnsuredDisk(uAttr, uDisk, uOut)
    /\ UNCHANGED <<uOut, uRun, uStage, uUsed, uTorn, notU>>

NextCallbacks ==
    \/ \E ok \in BOOLEAN : StartRun(ok)
    \/ StageCall
    \/ RunEnds
    \/ \E d \in OutLocations, ok \in BOOLEAN : OutDirChange(d, ok)
    \/ Drain

SpecCallbacks == InitCallbacks /\ [][NextCallbacks]_vars

\* C30: while a run is in progress no cache root its stages have written to is removed,
\* and all its stages write to one and the same cache root
C30_WorkspaceStable ==
    uRun = "running" => (~uTorn /\ Cardinality(uUsed) <= 1)

====
